---- MODULE Spec2Model ----
(***************************************************************************)
(* The simulation engine of ShadowFuturesExplorer.tsx as a state machine:  *)
(* mulberry32, gini, mutualInformationBinned, softmaxPick and simulate.    *)
(*                                                                         *)
(* Numbers.  A JavaScript number is modelled as an exact value             *)
(*     (num / den) * Eps^eps                                               *)
(* with num, den integers, den > 0, gcd(num, den) = 1 and Eps = 1e-9 the   *)
(* attachment floor of the weight formula.  The eps exponent keeps the     *)
(* floor 1e-9 and its powers exact inside TLC's integers.  Arithmetic is   *)
(* exact (no rounding); Math.exp and Math.log are the only inexact         *)
(* operations and are modelled by their (2,2) Pade approximants.           *)
(*                                                                         *)
(* 32-bit words of the generator are pairs <<hi, lo>> of 16-bit halves.    *)
(***************************************************************************)
EXTENDS Integers, Sequences, FiniteSets, TLC

(***************************************************************************)
(* Bounds of the model.                                                    *)
(***************************************************************************)
\* longest horizon T a call is made with
MaxT == 3
\* number of simulate calls in a behaviour of SpecCalls
MaxCalls == 3
\* bits of each generator output kept when it becomes a number in [0,1)
DrawBits == 3
\* longest sequence gini is called with directly
MaxLen == 3
\* binary digits after the point kept of a Math.exp or Math.log result
FracBits == 4
\* the reduced horizon of the quick run behind each cell of the phase map (T: 100 in
\* the source), scaled to the horizons explored
QuickT == 2
\* largest resolution generatePhaseTransition is called with
MaxResolution == 2
\* the cap generateTaxRevenueCurve puts on the horizon (300 in the source), scaled to
\* the horizons explored: MaxT lies above it
CurveCap == 2
\* calls of one generator whose values are not recorded, made in one step; after
\* them the closure variable t is a little below 2^53
LongRun == 4917750
\* calls of one generator whose values are recorded, one step each
MaxDraws == 12

(***************************************************************************)
(* Exact numbers                                                           *)
(***************************************************************************)
RECURSIVE GCD(_, _)
GCD(a, b) == IF b = 0 THEN a ELSE GCD(b, a % b)

Abs(x) == IF x < 0 THEN -x ELSE x

RECURSIVE IPow(_, _)
IPow(b, e) == IF e = 0 THEN 1 ELSE b * IPow(b, e - 1)

\* 1 / Eps as an integer
EpsInv == 1000000000

\* the number (n / d) * Eps^k in lowest terms
QE(n, d, k) ==
    IF n = 0 THEN [num |-> 0, den |-> 1, eps |-> 0]
    ELSE LET g == GCD(Abs(n), Abs(d))
             s == IF d < 0 THEN -1 ELSE 1
         IN  [num |-> s * (n \div g), den |-> s * (d \div g), eps |-> k]

Q(n, d) == QE(n, d, 0)
Zero == Q(0, 1)
One == Q(1, 1)
Eps == QE(1, 1, 1)

\* x rewritten with eps exponent k <= x.eps (exact; large values overflow in TLC)
Align(x, k) ==
    IF x.num = 0 \/ x.eps = k THEN [num |-> x.num, den |-> x.den]
    ELSE [num |-> x.num, den |-> x.den * IPow(EpsInv, x.eps - k)]

MinI(a, b) == IF a < b THEN a ELSE b

NumAdd(x, y) ==
    IF x.num = 0 THEN y
    ELSE IF y.num = 0 THEN x
    ELSE LET k == MinI(x.eps, y.eps)
             a == Align(x, k)
             b == Align(y, k)
             g == GCD(a.den, b.den)
         IN  QE(a.num * (b.den \div g) + b.num * (a.den \div g), a.den * (b.den \div g), k)

NumNeg(x) == [num |-> -x.num, den |-> x.den, eps |-> x.eps]
NumSub(x, y) == NumAdd(x, NumNeg(y))

NumMul(x, y) ==
    IF x.num = 0 \/ y.num = 0 THEN Zero
    ELSE LET g1 == GCD(Abs(x.num), y.den)
             g2 == GCD(Abs(y.num), x.den)
         IN  QE((x.num \div g1) * (y.num \div g2), (x.den \div g2) * (y.den \div g1),
                x.eps + y.eps)

\* x / y for y # 0
NumDiv(x, y) ==
    NumMul(x, QE(y.den, y.num, -y.eps))

Sign(x) == IF x.num > 0 THEN 1 ELSE IF x.num < 0 THEN -1 ELSE 0

\* -1, 0 or 1 as |x| is below, equal to or above |y|, for x.eps >= y.eps and
\* x, y # 0.  With x.eps > y.eps, |x| < |y| iff
\*   |x.num| * y.den < |y.num| * x.den * EpsInv^(x.eps - y.eps),
\* which is certain as soon as |x.num| * y.den < EpsInv.
CmpMagOrdered(x, y) ==
    LET l == Abs(x.num) * y.den
    IN  IF x.eps > y.eps /\ l < EpsInv THEN -1
        ELSE LET r == Abs(y.num) * x.den * IPow(EpsInv, x.eps - y.eps)
             IN  IF l < r THEN -1 ELSE IF l = r THEN 0 ELSE 1

CmpMag(x, y) == IF x.eps >= y.eps THEN CmpMagOrdered(x, y) ELSE -CmpMagOrdered(y, x)

\* -1, 0 or 1 as x < y, x = y or x > y
Cmp(x, y) ==
    IF Sign(x) # Sign(y) THEN (IF Sign(x) < Sign(y) THEN -1 ELSE 1)
    ELSE IF Sign(x) = 0 THEN 0
    ELSE Sign(x) * CmpMag(x, y)

NumLe(x, y) == Cmp(x, y) <= 0
NumLt(x, y) == Cmp(x, y) < 0
NumMax(x, y) == IF NumLe(y, x) THEN x ELSE y

\* Math.floor of a number with eps exponent 0
Floor(x) ==
    IF x.num >= 0 THEN x.num \div x.den
    ELSE -((-x.num + x.den - 1) \div x.den)

RECURSIVE NumPow(_, _)
NumPow(x, e) == IF e = 0 THEN One ELSE NumMul(x, NumPow(x, e - 1))

\* the least k for which (1e-9)^k, that is 1e-324 for k = 36, lies below half the
\* smallest positive double (about 2.5e-324) and is 0 as a double
UnderflowAt == 36

\* Math.pow(x, e) for a natural e: the power, or 0 when it underflows; only powers of
\* the floor 1e-9 get that small here
MathPow(x, e) == IF NumPow(x, e).eps >= UnderflowAt THEN Zero ELSE NumPow(x, e)

RECURSIVE SumNum(_)
SumNum(s) == IF s = <<>> THEN Zero ELSE NumAdd(SumNum(SubSeq(s, 1, Len(s) - 1)), s[Len(s)])

(***************************************************************************)
(* 32-bit words as <<hi, lo>>, 16 bits each                                *)
(***************************************************************************)
Half == 256 * 256

RECURSIVE Xor16(_, _)
Xor16(a, b) ==
    IF a = 0 THEN b
    ELSE IF b = 0 THEN a
    ELSE 2 * Xor16(a \div 2, b \div 2) + (IF (a % 2) = (b % 2) THEN 0 ELSE 1)

RECURSIVE Or16(_, _)
Or16(a, b) ==
    IF a = 0 THEN b
    ELSE IF b = 0 THEN a
    ELSE 2 * Or16(a \div 2, b \div 2) + (IF (a % 2) = 1 \/ (b % 2) = 1 THEN 1 ELSE 0)

WXor(a, b) == <<Xor16(a[1], b[1]), Xor16(a[2], b[2])>>
WOr(a, b) == <<Or16(a[1], b[1]), Or16(a[2], b[2])>>

\* a >>> k for 0 < k < 16
WShr(a, k) ==
    LET p == IPow(2, k)
    IN  <<a[1] \div p, (a[2] \div p) + (a[1] % p) * (Half \div p)>>

\* (a + b) mod 2^32
WAdd(a, b) ==
    LET lo == a[2] + b[2]
    IN  <<(a[1] + b[1] + lo \div Half) % Half, lo % Half>>

\* (x * y) mod 2^16 for 16-bit x, y, by the bytes of y
MulLow16(x, y) == (x * (y % 256) + ((x * (y \div 256)) % 256) * 256) % Half

\* floor(x * y / 2^16) mod 2^16 for 16-bit x, y
MulHigh16(x, y) ==
    LET p1 == x * (y % 256)
        p2 == x * (y \div 256)
    IN  (p2 \div 256 + (p1 + (p2 % 256) * 256) \div Half) % Half

\* Math.imul: the low 32 bits of the product
WMul(a, b) ==
    <<(MulHigh16(a[2], b[2]) + MulLow16(a[1], b[2]) + MulLow16(a[2], b[1])) % Half,
      MulLow16(a[2], b[2])>>

\* a small natural as a word
Word(n) == <<(n \div Half) % Half, n % Half>>

(***************************************************************************)
(* mulberry32                                                              *)
(***************************************************************************)
\* 0x6d2b79f5 as a word
Increment == <<27947, 31221>>

\* The closure variable t is a JavaScript number: `t += 0x6d2b79f5` adds without
\* wrapping.  It is kept as <<top, hi, lo>> = top * 2^32 + hi * 2^16 + lo; the
\* 32-bit operators that read it see its low word only (ToInt32 / ToUint32).
TInit(seed) == <<0, (seed \div Half) % Half, seed % Half>>

\* a + b exactly, for numbers kept as <<top, hi, lo>>
TSum(a, b) ==
    LET lo == a[3] + b[3]
        hi == a[2] + b[2] + lo \div Half
    IN  <<a[1] + b[1] + hi \div Half, hi % Half, lo % Half>>

\* the spacing of the doubles around top * 2^32: 1 below 2^53, doubling with each
\* further binary digit
RECURSIVE Ulp(_)
Ulp(top) == IF top < IPow(2, 21) THEN 1 ELSE 2 * Ulp(top \div 2)

\* a non-negative integer rounded to the nearest double, ties to the even significand
RoundDouble(a) ==
    LET u == Ulp(a[1])
        rem == a[3] % u
        down == a[3] - rem
        up == 2 * rem > u \/ (2 * rem = u /\ (down \div u) % 2 = 1)
    IN  IF rem = 0 THEN a
        ELSE IF up THEN TSum(<<a[1], a[2], down>>, <<0, 0, u>>)
        ELSE <<a[1], a[2], down>>

\* t += 0x6d2b79f5: the sum as a double
TNext(t) == RoundDouble(TSum(t, <<0>> \o Increment))

\* n * a exactly
RECURSIVE Times(_, _)
Times(a, n) ==
    IF n = 0 THEN <<0, 0, 0>>
    ELSE LET h == Times(a, n \div 2)
         IN  IF n % 2 = 1 THEN TSum(TSum(h, h), a) ELSE TSum(h, h)

\* t after n calls of the generator of mulberry32(seed), none of whose sums was
\* rounded: seed + n * 0x6d2b79f5
TAfter(seed, n) == TSum(TInit(seed), Times(<<0>> \o Increment, n))

TWord(t) == <<t[2], t[3]>>

\* the 32-bit output computed from the advanced state
Mix(t) ==
    LET w == TWord(t)
        x1 == WMul(WXor(w, WShr(w, 15)), WOr(Word(1), w))
        x2 == WXor(x1, WAdd(x1, WMul(WXor(x1, WShr(x1, 7)), WOr(Word(61), x1))))
    IN  WXor(x2, WShr(x2, 14))

\* out / 4294967296 as a number, kept to its DrawBits leading bits
Unit(out) == Q(out[1] \div IPow(2, 16 - DrawBits), IPow(2, DrawBits))

\* one call of the generator: the new state and the value returned
mulberry32(t) == [t |-> TNext(t), value |-> Unit(Mix(TNext(t)))]

(***************************************************************************)
(* Math.exp and Math.log                                                   *)
(***************************************************************************)
\* x to the nearest multiple of 2^-FracBits
Rounded(x) ==
    LET p == IPow(2, FracBits)
    IN  Q(Floor(NumAdd(NumMul(x, Q(p, 1)), Q(1, 2))), p)

\* Math.exp: (12 + 6x + x^2) / (12 - 6x + x^2), exact at 0, positive for every x
Exp(x) ==
    LET x2 == NumMul(x, x)
        x6 == NumMul(Q(6, 1), x)
    IN  Rounded(NumDiv(NumAdd(NumAdd(Q(12, 1), x6), x2), NumAdd(NumSub(Q(12, 1), x6), x2)))

\* Math.log for x > 0: 3 (x^2 - 1) / (x^2 + 4x + 1), exact at 1
Log(x) ==
    LET x2 == NumMul(x, x)
    IN  Rounded(NumDiv(NumMul(Q(3, 1), NumSub(x2, One)),
                       NumAdd(NumAdd(x2, NumMul(Q(4, 1), x)), One)))

(***************************************************************************)
(* Sequences of numbers                                                    *)
(***************************************************************************)
\* a sequence of integers as numbers
AsNum(s) == [i \in 1..Len(s) |-> Q(s[i], 1)]

RECURSIVE SumInt(_)
SumInt(s) == IF s = <<>> THEN 0 ELSE SumInt(SubSeq(s, 1, Len(s) - 1)) + s[Len(s)]

\* x put into the ascending sequence s after the elements that are <= x
RECURSIVE InsertAsc(_, _)
InsertAsc(s, x) ==
    IF s = <<>> THEN <<x>>
    ELSE IF NumLe(s[Len(s)], x) THEN Append(s, x)
    ELSE Append(InsertAsc(SubSeq(s, 1, Len(s) - 1), x), s[Len(s)])

\* [...values].sort((a, b) => a - b): stable, ascending
RECURSIVE SortAsc(_)
SortAsc(s) ==
    IF s = <<>> THEN <<>> ELSE InsertAsc(SortAsc(SubSeq(s, 1, Len(s) - 1)), s[Len(s)])

Reverse(s) == [i \in 1..Len(s) |-> s[Len(s) + 1 - i]]

\* [...values].sort((a, b) => b - a): descending
SortDesc(s) == Reverse(SortAsc(s))

(***************************************************************************)
(* clamp, gini, mutualInformationBinned, softmaxPick                       *)
(***************************************************************************)
clamp(x, a, b) == IF (IF b < x THEN b ELSE x) > a THEN (IF b < x THEN b ELSE x) ELSE a

\* sum over i of (i + 1) * v[i], i from 0
RECURSIVE RankSum(_)
RankSum(v) ==
    IF v = <<>> THEN Zero
    ELSE NumAdd(RankSum(SubSeq(v, 1, Len(v) - 1)), NumMul(Q(Len(v), 1), v[Len(v)]))

\* faulty variant of gini: the values are ranked in the order given
giniUnsorted(values) ==
    LET n == Len(values)
        sum == SumNum(values)
    IN  IF n = 0 THEN Zero
        ELSE IF NumLe(sum, Zero) THEN Zero
        ELSE NumSub(NumDiv(NumMul(Q(2, 1), RankSum(values)), NumMul(Q(n, 1), sum)),
                    Q(n + 1, n))

gini(values) ==
    LET n == Len(values)
        v == SortAsc(values)
        sum == SumNum(v)
    IN  IF n = 0 THEN Zero
        ELSE IF NumLe(sum, Zero) THEN Zero
        ELSE NumSub(NumDiv(NumMul(Q(2, 1), RankSum(v)), NumMul(Q(n, 1), sum)), Q(n + 1, n))

\* faulty variant of BinOf: the bin index is not clamped
BinOfUnclamped(e, bins) == Floor(NumMul(e, Q(bins, 1)))

\* the bin of an effort value
BinOf(e, bins) == clamp(Floor(NumMul(e, Q(bins, 1))), 0, bins - 1)

\* counts[b].n
BinCount(effort, bins, b) == Cardinality({i \in 1..Len(effort) : BinOf(effort[i], bins) = b})

\* counts[b].r1
BinRewarded(effort, rewarded, bins, b) ==
    Cardinality({i \in 1..Len(effort) : BinOf(effort[i], bins) = b /\ rewarded[i] # 0})

\* the contribution of bin b to mi
MITerm(effort, rewarded, bins, b) ==
    LET n == Len(effort)
        nb == BinCount(effort, bins, b)
        pR1 == Q(Cardinality({i \in 1..Len(rewarded) : rewarded[i] # 0}), n)
        pR0 == NumSub(One, pR1)
        pV == Q(nb, n)
        pR1gV == Q(BinRewarded(effort, rewarded, bins, b), nb)
        pR0gV == NumSub(One, pR1gV)
        t1 == IF NumLt(Zero, pR1gV) /\ NumLt(Zero, pR1)
              THEN NumMul(NumMul(pV, pR1gV), Log(NumDiv(pR1gV, pR1))) ELSE Zero
        t0 == IF NumLt(Zero, pR0gV) /\ NumLt(Zero, pR0)
              THEN NumMul(NumMul(pV, pR0gV), Log(NumDiv(pR0gV, pR0))) ELSE Zero
    IN  IF nb = 0 THEN Zero ELSE NumAdd(t1, t0)

RECURSIVE MISum(_, _, _, _)
MISum(effort, rewarded, bins, b) ==
    IF b = 0 THEN Zero
    ELSE NumAdd(MISum(effort, rewarded, bins, b - 1), MITerm(effort, rewarded, bins, b - 1))

mutualInformationBinned(effort, rewarded, bins) ==
    IF Len(effort) = 0 THEN Zero
    ELSE NumDiv(MISum(effort, rewarded, bins, bins), Log(Q(2, 1)))

\* faulty variant of PickFrom: the loop returns on r < 0
RECURSIVE PickFromStrict(_, _, _)
PickFromStrict(weights, r, i) ==
    IF i >= Len(weights) THEN Len(weights) - 1
    ELSE LET r2 == NumSub(r, weights[i + 1])
         IN  IF NumLt(r2, Zero) THEN i ELSE PickFromStrict(weights, r2, i + 1)

\* the loop of softmaxPick from index i (0-based) with r the value left
RECURSIVE PickFrom(_, _, _)
PickFrom(weights, r, i) ==
    IF i >= Len(weights) THEN Len(weights) - 1
    ELSE LET r2 == NumSub(r, weights[i + 1])
         IN  IF NumLe(r2, Zero) THEN i ELSE PickFrom(weights, r2, i + 1)

\* softmaxPick with u the value rng() returns; rng is called only when total > 0
softmaxPick(weights, u) ==
    LET total == SumNum(weights)
    IN  IF NumLe(total, Zero) THEN 0 ELSE PickFrom(weights, NumMul(u, total), 0)

\* whether softmaxPick(weights, rng) calls rng
PickDraws(weights) == NumLt(Zero, SumNum(weights))

(***************************************************************************)
(* simulate: the sub-steps of one iteration as operators                   *)
(***************************************************************************)
\* faulty variant of Push: array.unshift(x)
Unshift(array, x) == <<x>> \o array

\* array.push(x)
Push(array, x) == Append(array, x)

\* if (churn > 0) for (...) A[i] *= 1 - churn
ChurnDecay(attachment, churn) ==
    IF NumLt(Zero, churn)
    THEN [i \in 1..Len(attachment) |-> NumMul(attachment[i], NumSub(One, churn))]
    ELSE attachment

\* faulty variant of TaxAttachment: the rate itself is subtracted, not rate * A[i]
TaxAttachmentFlat(attachment, rate) ==
    IF NumLt(Zero, rate)
    THEN [i \in 1..Len(attachment) |-> NumSub(attachment[i], rate)]
    ELSE attachment

\* A[i] -= A[i] * wealthTaxRate, for every i, when wealthTaxRate > 0
TaxAttachment(attachment, rate) ==
    IF NumLt(Zero, rate)
    THEN [i \in 1..Len(attachment) |-> NumSub(attachment[i], NumMul(attachment[i], rate))]
    ELSE attachment

\* wealth[i] -= wealth[i] * wealthTaxRate, for every i, when wealthTaxRate > 0
TaxWealth(holdings, rate) ==
    IF NumLt(Zero, rate)
    THEN [i \in 1..Len(holdings) |-> NumSub(holdings[i], NumMul(holdings[i], rate))]
    ELSE holdings

\* faulty variant of TaxCollected: only the first agent's attachment tax reaches the
\* revenue
TaxCollectedFirst(revenue, attachment, rate, n) ==
    IF ~NumLt(Zero, rate) \/ n = 0 THEN revenue
    ELSE NumAdd(revenue, NumMul(attachment[1], rate))

\* totalTaxRevenue += attachmentTax, for the first n agents in order
RECURSIVE TaxCollected(_, _, _, _)
TaxCollected(revenue, attachment, rate, n) ==
    IF ~NumLt(Zero, rate) \/ n = 0 THEN revenue
    ELSE NumAdd(TaxCollected(revenue, attachment, rate, n - 1), NumMul(attachment[n], rate))

\* effort.reduce((s, x) => s + x, 0) / effort.length
MeanEffort(eff) == NumDiv(SumNum(eff), Q(Len(eff), 1))

\* faulty variant of Weight: no floor under the attachment
WeightNoFloor(ai, ei, meanV, alpha, lambda) ==
    NumMul(NumPow(ai, alpha), Exp(NumMul(lambda, NumSub(ei, meanV))))

\* Math.pow(Math.max(ai, 1e-9), alpha) * Math.exp(lambda * (effort[i] - meanV))
Weight(ai, ei, meanV, alpha, lambda) ==
    LET base == MathPow(NumMax(ai, Eps), alpha)
        mod == Exp(NumMul(lambda, NumSub(ei, meanV)))
    IN  NumMul(base, mod)

WeightsOf(attachment, eff, alpha, lambda) ==
    [i \in 1..Len(attachment) |->
        Weight(attachment[i], eff[i], MeanEffort(eff), alpha, lambda)]

\* faulty variant of AfterTaxReward: the reward is credited before tax
AfterTaxRewardGross(rate) == One

\* const afterTaxReward = reward * (1 - incomeTaxRate), reward = 1
AfterTaxReward(rate) == NumMul(One, NumSub(One, rate))

\* faulty variant of IncomeTax: the amount collected falls again at high rates
IncomeTaxLaffer(rate) == NumMul(rate, NumSub(One, rate))

\* const taxCollected = reward * incomeTaxRate
IncomeTax(rate) == NumMul(One, rate)

\* faulty variant of Credit: the amount is added to every agent
CreditAll(x, winner, amount) == [i \in 1..Len(x) |-> NumAdd(x[i], amount)]

\* x[winner] += amount, winner 0-based
Credit(x, winner, amount) ==
    [i \in 1..Len(x) |-> IF i = winner + 1 THEN NumAdd(x[i], amount) ELSE x[i]]

\* faulty variant of MarkRewarded: the flags of the other agents are cleared
MarkOnlyWinner(got, winner) == [i \in 1..Len(got) |-> IF i = winner + 1 THEN 1 ELSE 0]

\* faulty variant of MarkRewarded: the newest agent is flagged, not the winner
MarkRewardedNewest(got, winner) == [got EXCEPT ![Len(got)] = 1]

\* gotAnyReward[winner] = 1
MarkRewarded(got, winner) == [got EXCEPT ![winner + 1] = 1]

\* faulty variant of CountReward: the count is set, not incremented
CountRewardSet(count, winner) == [count EXCEPT ![winner + 1] = 1]

\* rewardCount[winner] += 1
CountReward(count, winner) == [count EXCEPT ![winner + 1] = @ + 1]

\* rewardCount.map((x) => (totalRewards > 0 ? x / totalRewards : 0))
Shares(count) ==
    LET totalRewards == SumInt(count)
    IN  [i \in 1..Len(count) |-> IF totalRewards > 0 THEN Q(count[i], totalRewards) ELSE Zero]

\* [...shares].sort((a, b) => b - a)[0] ?? 0
Top1Of(shares) == IF shares = <<>> THEN Zero ELSE SortDesc(shares)[1]

\* faulty variant of Top10Of: Math.floor(shares.length * 0.1) entries, possibly none
Top10OfNoFloor(shares) ==
    SumNum(SubSeq(SortDesc(shares), 1, Floor(NumMul(Q(Len(shares), 1), Q(1, 10)))))

\* Math.max(1, Math.floor(shares.length * 0.1)) leading entries of the sorted shares
Top10Of(shares) ==
    LET k == IF Floor(NumMul(Q(Len(shares), 1), Q(1, 10))) > 1
             THEN Floor(NumMul(Q(Len(shares), 1), Q(1, 10))) ELSE 1
    IN  SumNum(SubSeq(SortDesc(shares), 1, IF k < Len(shares) THEN k ELSE Len(shares)))

\* faulty variant of PostTaxGini: no fallback
PostTaxGiniNoFallback(holdings, g) == gini(holdings)

\* wealth.length > 0 && sum(wealth) > 0 ? gini(wealth) : g
PostTaxGini(holdings, g) ==
    IF Len(holdings) > 0 /\ NumLt(Zero, SumNum(holdings)) THEN gini(holdings) ELSE g

\* faulty variant of SeriesRow: the row carries the 0-based loop variable
SeriesRowZeroBased(t, eff, got, count, holdings, revenue, bins) ==
    [t |-> t,
     MI_bits |-> mutualInformationBinned(eff, got, bins),
     Gini |-> gini(AsNum(count)),
     Top1 |-> Top1Of(Shares(count)),
     Top10 |-> Top10Of(Shares(count)),
     taxRevenue |-> revenue,
     postTaxGini |-> PostTaxGini(holdings, gini(AsNum(count)))]

\* the row pushed to series at the end of iteration t (0-based)
SeriesRow(t, eff, got, count, holdings, revenue, bins) ==
    [t |-> t + 1,
     MI_bits |-> mutualInformationBinned(eff, got, bins),
     Gini |-> gini(AsNum(count)),
     Top1 |-> Top1Of(Shares(count)),
     Top10 |-> Top10Of(Shares(count)),
     taxRevenue |-> revenue,
     postTaxGini |-> PostTaxGini(holdings, gini(AsNum(count)))]

\* the 20 largest final shares, ranked from 1
Bars(count) ==
    LET sorted == SortDesc(Shares(count))
        m == IF Len(sorted) < 20 THEN Len(sorted) ELSE 20
    IN  [idx \in 1..m |-> [rank |-> idx, share |-> sorted[idx]]]

\* P(ever rewarded | effort bin), one entry per bin
EffortCurve(eff, got, bins) ==
    [b \in 1..bins |->
        [bin |-> ToString(b),
         pRewarded |-> IF BinCount(eff, bins, b - 1) # 0
                       THEN Q(BinRewarded(eff, got, bins, b - 1), BinCount(eff, bins, b - 1))
                       ELSE Zero]]

(***************************************************************************)
(* simulate as a function of its parameters                                *)
(***************************************************************************)
\* the locals of simulate before the first iteration (lines 194-205)
Fresh(p) ==
    [rng |-> TInit(p.seed), t |-> 0, effort |-> <<>>, A |-> <<>>, gotAnyReward |-> <<>>,
     rewardCount |-> <<>>, wealth |-> <<>>, series |-> <<>>, totalTaxRevenue |-> Zero]

\* one iteration of the loop (lines 208-283)
Iteration(s, p) ==
    LET entrant == mulberry32(s.rng)
        eff == Push(s.effort, entrant.value)
        decayed == ChurnDecay(Push(s.A, p.A0), p.churn)
        taxed == TaxAttachment(decayed, p.wealthTaxRate)
        kept == TaxWealth(Push(s.wealth, Zero), p.wealthTaxRate)
        levied == TaxCollected(s.totalTaxRevenue, decayed, p.wealthTaxRate, Len(decayed))
        w == WeightsOf(taxed, eff, p.alpha, p.lambda)
        draw == mulberry32(entrant.t)
        win == softmaxPick(w, draw.value)
        got == MarkRewarded(Push(s.gotAnyReward, 0), win)
        count == CountReward(Push(s.rewardCount, 0), win)
        holdings == Credit(kept, win, AfterTaxReward(p.incomeTaxRate))
        revenue == NumAdd(levied, IncomeTax(p.incomeTaxRate))
    IN  [rng |-> IF PickDraws(w) THEN draw.t ELSE entrant.t,
         t |-> s.t + 1,
         effort |-> eff,
         A |-> Credit(taxed, win, AfterTaxReward(p.incomeTaxRate)),
         gotAnyReward |-> got,
         rewardCount |-> count,
         wealth |-> holdings,
         series |-> Append(s.series, SeriesRow(s.t, eff, got, count, holdings, revenue, p.bins)),
         totalTaxRevenue |-> revenue]

RECURSIVE Loop(_, _)
Loop(s, p) == IF s.t < p.T THEN Loop(Iteration(s, p), p) ELSE s

\* what simulate returns once the loop has left the arrays as in s (lines 285-307)
ReturnedFrom(s, bins) ==
    [series |-> s.series,
     bars |-> Bars(s.rewardCount),
     effortCurve |-> EffortCurve(s.effort, s.gotAnyReward, bins),
     totalTaxRevenue |-> s.totalTaxRevenue]

\* simulate(p): the loop run to its end and the returned object (lines 183-308)
simulate(p) == ReturnedFrom(Loop(Fresh(p), p), p.bins)

(***************************************************************************)
(* Regime classifier                                                       *)
(***************************************************************************)
Regime(name, color) == [name |-> name, color |-> color]

\* faulty variant of classifyRegime: the Complex rule is tested before the Periodic rule
classifyRegimeComplexFirst(alpha, lambda, churn) ==
    IF NumLt(alpha, Q(1, 2)) /\ NumLt(Q(4, 5), lambda) /\ NumLt(Q(1, 200), churn)
    THEN Regime("Ordered", "#3b82f6")
    ELSE IF /\ NumLe(Q(9, 10), alpha) /\ NumLe(alpha, Q(6, 5))
            /\ NumLe(Q(2, 5), lambda) /\ NumLe(lambda, Q(4, 5))
            /\ NumLe(Q(1, 200), churn) /\ NumLe(churn, Q(3, 200))
    THEN Regime("Complex", "#f59e0b")
    ELSE IF /\ NumLe(Q(1, 2), alpha) /\ NumLt(alpha, One)
            /\ NumLt(Q(3, 5), lambda) /\ NumLt(churn, Q(1, 100))
    THEN Regime("Periodic", "#10b981")
    ELSE IF NumLt(Q(6, 5), alpha) /\ NumLt(lambda, Q(1, 2)) /\ NumLt(churn, Q(1, 200))
    THEN Regime("Chaotic", "#ef4444")
    ELSE Regime("Transitional", "#8b5cf6")

\* faulty variant of classifyRegime: the Ordered rule also accepts alpha = 0.5, where
\* the Periodic rule begins
classifyRegimeOrderedWide(alpha, lambda, churn) ==
    IF NumLe(alpha, Q(1, 2)) /\ NumLt(Q(4, 5), lambda) /\ NumLt(Q(1, 200), churn)
    THEN Regime("Ordered", "#3b82f6")
    ELSE IF /\ NumLe(Q(1, 2), alpha) /\ NumLt(alpha, One)
            /\ NumLt(Q(3, 5), lambda) /\ NumLt(churn, Q(1, 100))
    THEN Regime("Periodic", "#10b981")
    ELSE IF /\ NumLe(Q(9, 10), alpha) /\ NumLe(alpha, Q(6, 5))
            /\ NumLe(Q(2, 5), lambda) /\ NumLe(lambda, Q(4, 5))
            /\ NumLe(Q(1, 200), churn) /\ NumLe(churn, Q(3, 200))
    THEN Regime("Complex", "#f59e0b")
    ELSE IF NumLt(Q(6, 5), alpha) /\ NumLt(lambda, Q(1, 2)) /\ NumLt(churn, Q(1, 200))
    THEN Regime("Chaotic", "#ef4444")
    ELSE Regime("Transitional", "#8b5cf6")

\* classifyRegime(alpha, lambda, churn): the first rule that holds decides
classifyRegime(alpha, lambda, churn) ==
    IF NumLt(alpha, Q(1, 2)) /\ NumLt(Q(4, 5), lambda) /\ NumLt(Q(1, 200), churn)
    THEN Regime("Ordered", "#3b82f6")
    ELSE IF /\ NumLe(Q(1, 2), alpha) /\ NumLt(alpha, One)
            /\ NumLt(Q(3, 5), lambda) /\ NumLt(churn, Q(1, 100))
    THEN Regime("Periodic", "#10b981")
    ELSE IF /\ NumLe(Q(9, 10), alpha) /\ NumLe(alpha, Q(6, 5))
            /\ NumLe(Q(2, 5), lambda) /\ NumLe(lambda, Q(4, 5))
            /\ NumLe(Q(1, 200), churn) /\ NumLe(churn, Q(3, 200))
    THEN Regime("Complex", "#f59e0b")
    ELSE IF NumLt(Q(6, 5), alpha) /\ NumLt(lambda, Q(1, 2)) /\ NumLt(churn, Q(1, 200))
    THEN Regime("Chaotic", "#ef4444")
    ELSE Regime("Transitional", "#8b5cf6")

(***************************************************************************)
(* Sweep generators                                                        *)
(***************************************************************************)
\* a number passed as simulate's alpha: the exponent it denotes, a natural number on
\* the grids explored
Exponent(x) == CHOOSE n \in 0..x.num : Q(n, 1) = x

\* the last row of a result's series
Last(run) == run.series[Len(run.series)]

\* faulty variant of PointOf: the two diagnostics change places
PointOfSwapped(alpha, lambda, regime, last) ==
    [alpha |-> alpha, lambda |-> lambda, regime |-> regime.name, color |-> regime.color,
     mi |-> last.Gini, gini |-> last.MI_bits]

\* the point pushed for one cell (lines 354-361)
PointOf(alpha, lambda, regime, last) ==
    [alpha |-> alpha, lambda |-> lambda, regime |-> regime.name, color |-> regime.color,
     mi |-> last.MI_bits, gini |-> last.Gini]

\* the body of the inner loop: classification, quick run and the point (lines 345-361);
\* QuickT stands for the reduced horizon the quick run is given
PhasePoint(alpha, lambda, churn) ==
    PointOf(alpha, lambda, classifyRegime(alpha, lambda, churn),
            Last(simulate([T |-> QuickT, alpha |-> Exponent(alpha), lambda |-> lambda,
                           churn |-> churn, A0 |-> One, bins |-> 10, seed |-> 42,
                           incomeTaxRate |-> Zero, wealthTaxRate |-> Zero])))

\* faulty variant of LambdaOfRow: rows run from low lambda to high lambda
LambdaOfRowAscending(lambdaRange, resolution, row) ==
    NumAdd(lambdaRange[1],
           NumMul(Q(2 * row + 1, 2),
                  NumDiv(NumSub(lambdaRange[2], lambdaRange[1]), Q(resolution, 1))))

\* const lambda = lambdaRange[1] - (row + 0.5) * lambdaStep; a range is <<low, high>>
LambdaOfRow(lambdaRange, resolution, row) ==
    NumSub(lambdaRange[2],
           NumMul(Q(2 * row + 1, 2),
                  NumDiv(NumSub(lambdaRange[2], lambdaRange[1]), Q(resolution, 1))))

\* const alpha = alphaRange[0] + (col + 0.5) * alphaStep
AlphaOfCol(alphaRange, resolution, col) ==
    NumAdd(alphaRange[1],
           NumMul(Q(2 * col + 1, 2),
                  NumDiv(NumSub(alphaRange[2], alphaRange[1]), Q(resolution, 1))))

\* the inner loop from column col on (lines 346-362)
RECURSIVE PhaseCols(_, _, _, _, _, _)
PhaseCols(points, lambda, col, alphaRange, churn, resolution) ==
    IF col < resolution
    THEN PhaseCols(Push(points, PhasePoint(AlphaOfCol(alphaRange, resolution, col), lambda,
                                           churn)),
                   lambda, col + 1, alphaRange, churn, resolution)
    ELSE points

\* the outer loop from row row on (lines 343-363)
RECURSIVE PhaseRows(_, _, _, _, _, _)
PhaseRows(points, row, alphaRange, lambdaRange, churn, resolution) ==
    IF row < resolution
    THEN PhaseRows(PhaseCols(points, LambdaOfRow(lambdaRange, resolution, row), 0,
                             alphaRange, churn, resolution),
                   row + 1, alphaRange, lambdaRange, churn, resolution)
    ELSE points

\* generatePhaseTransition(alphaRange, lambdaRange, churn, resolution): the two nested
\* loops, each cell's point pushed in turn (lines 333-366)
generatePhaseTransition(alphaRange, lambdaRange, churn, resolution) ==
    PhaseRows(<<>>, 0, alphaRange, lambdaRange, churn, resolution)

\* faulty variant of TaxParams: the rate is given to both taxes
TaxParamsBoth(curveT, alpha, lambda, churn, taxType, rate) ==
    [T |-> curveT, alpha |-> alpha, lambda |-> lambda, churn |-> churn, A0 |-> One,
     bins |-> 10, seed |-> 42, incomeTaxRate |-> rate, wealthTaxRate |-> rate]

\* faulty variant of TaxParams: the seed of the interactive run instead of 42
TaxParamsSeedSeven(curveT, alpha, lambda, churn, taxType, rate) ==
    [T |-> curveT, alpha |-> alpha, lambda |-> lambda, churn |-> churn, A0 |-> One,
     bins |-> 10, seed |-> 7,
     incomeTaxRate |-> IF taxType = "income" THEN rate ELSE Zero,
     wealthTaxRate |-> IF taxType = "income" THEN Zero ELSE rate]

\* the parameter object of one point of the curve, defaults filled in (lines 385-397)
TaxParams(curveT, alpha, lambda, churn, taxType, rate) ==
    [T |-> curveT, alpha |-> alpha, lambda |-> lambda, churn |-> churn, A0 |-> One,
     bins |-> 10, seed |-> 42,
     incomeTaxRate |-> IF taxType = "income" THEN rate ELSE Zero,
     wealthTaxRate |-> IF taxType = "income" THEN Zero ELSE rate]

\* faulty variant of CurvePush: the point carries the wealth-based concentration
CurvePushWealthBased(done, params, rate, run) ==
    IF run.series = <<>>
    THEN [points |-> done.points,
          calls |-> Append(done.calls, [params |-> params, result |-> run]),
          thrown |-> TRUE]
    ELSE [points |-> Push(done.points, [rate |-> NumMul(rate, Q(100, 1)),
                                        revenue |-> run.totalTaxRevenue,
                                        postTaxGini |-> Last(run).postTaxGini]),
          calls |-> Append(done.calls, [params |-> params, result |-> run]),
          thrown |-> FALSE]

\* the end of the loop body (lines 400-408): the read of last.Gini throws when the
\* series is empty, otherwise the point is pushed; calls lists the simulate calls made
CurvePush(done, params, rate, run) ==
    IF run.series = <<>>
    THEN [points |-> done.points,
          calls |-> Append(done.calls, [params |-> params, result |-> run]),
          thrown |-> TRUE]
    ELSE [points |-> Push(done.points, [rate |-> NumMul(rate, Q(100, 1)),
                                        revenue |-> run.totalTaxRevenue,
                                        postTaxGini |-> Last(run).Gini]),
          calls |-> Append(done.calls, [params |-> params, result |-> run]),
          thrown |-> FALSE]

\* the loop of generateTaxRevenueCurve from index i on (lines 383-409)
RECURSIVE TaxCurveFrom(_, _, _, _, _, _, _, _, _)
TaxCurveFrom(done, i, alpha, lambda, churn, curveT, taxType, rateStep, steps) ==
    IF done.thrown \/ ~(i <= steps) THEN done
    ELSE TaxCurveFrom(
             CurvePush(done,
                       TaxParams(curveT, alpha, lambda, churn, taxType,
                                 NumMul(Q(i, 1), rateStep)),
                       NumMul(Q(i, 1), rateStep),
                       simulate(TaxParams(curveT, alpha, lambda, churn, taxType,
                                          NumMul(Q(i, 1), rateStep)))),
             i + 1, alpha, lambda, churn, curveT, taxType, rateStep, steps)

\* generateTaxRevenueCurve up to its return (lines 378-410): the points pushed, the
\* simulate calls made, and whether the read of last.Gini threw; CurveCap stands for
\* the cap on the horizon
TaxCurveLoop(alpha, lambda, churn, T, taxType, maxRate, steps) ==
    TaxCurveFrom([points |-> <<>>, calls |-> <<>>, thrown |-> FALSE], 0, alpha, lambda,
                 churn, MinI(T, CurveCap), taxType, NumDiv(maxRate, Q(steps, 1)), steps)

\* what the caller gets: the points, or the TypeError
CurveOutcome(done) ==
    [thrown |-> done.thrown, points |-> IF done.thrown THEN <<>> ELSE done.points]

\* generateTaxRevenueCurve(alpha, lambda, churn, T, taxType, maxRate, steps)
generateTaxRevenueCurve(alpha, lambda, churn, T, taxType, maxRate, steps) ==
    CurveOutcome(TaxCurveLoop(alpha, lambda, churn, T, taxType, maxRate, steps))

(***************************************************************************)
(* The highlighted cell of the phase map                                   *)
(***************************************************************************)
\* the values Math.min(9, Math.max(0, Math.floor(x / 0.2))) can take: x / 0.2 is a
\* quotient of doubles, which for x a multiple of 0.2 is the whole number or lies just
\* below it
CellIdx(x) ==
    {clamp(Floor(NumDiv(x, Q(1, 5))), 0, 9)} \cup
    (IF NumDiv(x, Q(1, 5)).den = 1
     THEN {clamp(Floor(NumDiv(x, Q(1, 5))) - 1, 0, 9)}
     ELSE {})

\* faulty variant of CurrentCellIdx: rows counted from low lambda
CurrentCellIdxUnflipped(alphaIdx, lambdaIdx) == lambdaIdx * 10 + alphaIdx

\* const currentCellIdx = (9 - lambdaIdx) * 10 + alphaIdx
CurrentCellIdx(alphaIdx, lambdaIdx) == (9 - lambdaIdx) * 10 + alphaIdx

(***************************************************************************)
(* Inputs                                                                  *)
(***************************************************************************)
TSet == {0, 1, MaxT}
AlphaSet == {0, 1, 2}
LambdaSet == {Zero, One, Q(2, 1)}
ChurnSet == {Zero, Q(1, 2)}
RateSet == {Zero, Q(1, 2), One}
A0Set == {One, Q(1, 2)}
SeedSet == {7, 8, 42}
BinsSet == {2, 10}

\* the parameter records of SimulationParams the behaviours of Spec call with
ParamSet ==
    [T : TSet, alpha : AlphaSet, lambda : LambdaSet, churn : ChurnSet, A0 : A0Set,
     bins : BinsSet, seed : SeedSet, incomeTaxRate : RateSet, wealthTaxRate : RateSet]

\* the parameter records the behaviours of SpecCalls call with
CallParamSet ==
    [T : {2}, alpha : {1}, lambda : {One}, churn : {Zero}, A0 : {One},
     bins : {10}, seed : SeedSet, incomeTaxRate : {Zero}, wealthTaxRate : {Zero, Q(1, 2)}]

\* the parameter records the behaviours of SpecFloor call with: exponents at which the
\* power of the floor 1e-9 is still a positive double and at which it is not, every
\* attachment taxed away before the weights are computed
FloorParamSet ==
    [T : TSet, alpha : {UnderflowAt - 1, UnderflowAt}, lambda : LambdaSet, churn : ChurnSet,
     A0 : A0Set, bins : {10}, seed : SeedSet, incomeTaxRate : {Zero, Q(1, 2)},
     wealthTaxRate : {One}]

\* the parameter records a caller chooses from
InputsOf(caller) ==
    IF caller = "any" THEN ParamSet
    ELSE IF caller = "repeated" THEN CallParamSet
    ELSE IF caller = "floor" THEN FloorParamSet
    ELSE {}

\* the defaults of simulate's parameter list
Defaults ==
    [T |-> 400, alpha |-> 1, lambda |-> Zero, churn |-> Zero, A0 |-> One,
     bins |-> 10, seed |-> 7, incomeTaxRate |-> Zero, wealthTaxRate |-> Zero]

(***************************************************************************)
(* State                                                                   *)
(***************************************************************************)
VARIABLES
    pc,              \* where the running call is: idle, entry, churn, wealthTax,
                     \* weights, reward, metrics
    params,          \* the parameter record of the running (or last) call
    rng,             \* the closure variable t of the call's generator
    t,               \* the loop variable
    effort, A, gotAnyReward, rewardCount, wealth,   \* the per-agent arrays
    series,          \* the rows pushed so far
    totalTaxRevenue,
    weights,         \* const weights of the current iteration
    winner,          \* const winner of the current iteration (0-based)
    result,          \* what the last completed call returned
    calls,           \* the completed calls in order: [params, result]
    callsLeft,       \* calls the caller will still make
    inputs,          \* which caller is modelled: names the set its parameters come from
    probe,           \* the argument of a direct call of gini, <<>> when there is none
    answer           \* <<its return value>> once the call was made

vars == <<pc, params, rng, t, effort, A, gotAnyReward, rewardCount, wealth, series,
          totalTaxRevenue, weights, winner, result, calls, callsLeft, inputs, probe, answer>>

direct == <<probe, answer>>

NoResult == [series |-> <<>>, bars |-> <<>>, effortCurve |-> <<>>, totalTaxRevenue |-> Zero]

InitWith(budget, menu, arg) ==
    /\ probe = arg
    /\ answer = <<>>
    /\ pc = "idle"
    /\ params = Defaults
    /\ rng = TInit(Defaults.seed)
    /\ t = 0
    /\ effort = <<>> /\ A = <<>> /\ gotAnyReward = <<>> /\ rewardCount = <<>> /\ wealth = <<>>
    /\ series = <<>>
    /\ totalTaxRevenue = Zero
    /\ weights = <<>>
    /\ winner = 0
    /\ result = NoResult
    /\ calls = <<>>
    /\ callsLeft = budget
    /\ inputs = menu

Init == InitWith(1, "any", <<>>)

InitCalls == InitWith(MaxCalls, "repeated", <<>>)

InitFloor == InitWith(1, "floor", <<>>)

\* the values and the sequences gini is called with directly
GiniValues == {Zero, Q(1, 2), One, Q(3, 1)}

RECURSIVE SeqsUpTo(_, _)
SeqsUpTo(S, n) ==
    IF n = 0 THEN {<<>>}
    ELSE SeqsUpTo(S, n - 1) \cup {Append(q, x) : q \in SeqsUpTo(S, n - 1), x \in S}

GiniInputs == SeqsUpTo(GiniValues, MaxLen) \ {<<>>}

\* no simulate call is made; gini is called on one sequence
InitGini == \E values \in GiniInputs : InitWith(0, "none", values)

(***************************************************************************)
(* simulate                                                                *)
(***************************************************************************)
\* faulty variant of Call: one generator shared by all calls, never re-seeded
CallSharedGenerator ==
    /\ pc = "idle"
    /\ callsLeft > 0
    /\ \E p \in InputsOf(inputs) : params' = p
    /\ callsLeft' = callsLeft - 1
    /\ effort' = <<>> /\ A' = <<>> /\ gotAnyReward' = <<>> /\ rewardCount' = <<>>
    /\ wealth' = <<>>
    /\ series' = <<>>
    /\ totalTaxRevenue' = Zero
    /\ t' = 0
    /\ pc' = "entry"
    /\ UNCHANGED <<rng, weights, winner, result, calls, inputs, direct>>

\* the call: parameters bound, generator and arrays created (lines 183-205)
Call ==
    /\ pc = "idle"
    /\ callsLeft > 0
    /\ \E p \in InputsOf(inputs) :
        /\ params' = p
        /\ rng' = TInit(p.seed)
    /\ callsLeft' = callsLeft - 1
    /\ effort' = <<>> /\ A' = <<>> /\ gotAnyReward' = <<>> /\ rewardCount' = <<>>
    /\ wealth' = <<>>
    /\ series' = <<>>
    /\ totalTaxRevenue' = Zero
    /\ t' = 0
    /\ pc' = "entry"
    /\ UNCHANGED <<weights, winner, result, calls, inputs, direct>>

\* loop test passed; entry of a new agent (lines 207-214)
Entry ==
    /\ pc = "entry"
    /\ t < params.T
    /\ rng' = mulberry32(rng).t
    /\ effort' = Push(effort, mulberry32(rng).value)
    /\ A' = Push(A, params.A0)
    /\ gotAnyReward' = Push(gotAnyReward, 0)
    /\ rewardCount' = Push(rewardCount, 0)
    /\ wealth' = Push(wealth, Zero)
    /\ pc' = "churn"
    /\ UNCHANGED <<params, t, series, totalTaxRevenue, weights, winner, result, calls,
                   callsLeft, inputs, direct>>

\* faulty variant of Churn: the decay runs before the entrant is pushed, so the agent
\* entered in this iteration is not decayed
ChurnBeforeEntry ==
    /\ pc = "churn"
    /\ A' = Push(ChurnDecay(SubSeq(A, 1, Len(A) - 1), params.churn), A[Len(A)])
    /\ pc' = "wealthTax"
    /\ UNCHANGED <<params, rng, t, effort, gotAnyReward, rewardCount, wealth, series,
                   totalTaxRevenue, weights, winner, result, calls, callsLeft, inputs, direct>>

\* churn decay (lines 216-219)
Churn ==
    /\ pc = "churn"
    /\ A' = ChurnDecay(A, params.churn)
    /\ pc' = "wealthTax"
    /\ UNCHANGED <<params, rng, t, effort, gotAnyReward, rewardCount, wealth, series,
                   totalTaxRevenue, weights, winner, result, calls, callsLeft, inputs, direct>>

\* faulty variant of WealthTax: the tax taken from the wealth ledger is added to the
\* revenue as well
WealthTaxCountedTwice ==
    /\ pc = "wealthTax"
    /\ A' = TaxAttachment(A, params.wealthTaxRate)
    /\ totalTaxRevenue' =
           TaxCollected(TaxCollected(totalTaxRevenue, A, params.wealthTaxRate, Len(A)),
                        wealth, params.wealthTaxRate, Len(wealth))
    /\ wealth' = TaxWealth(wealth, params.wealthTaxRate)
    /\ pc' = "weights"
    /\ UNCHANGED <<params, rng, t, effort, gotAnyReward, rewardCount, series, weights,
                   winner, result, calls, callsLeft, inputs, direct>>

\* wealth tax (lines 221-234)
WealthTax ==
    /\ pc = "wealthTax"
    /\ A' = TaxAttachment(A, params.wealthTaxRate)
    /\ totalTaxRevenue' = TaxCollected(totalTaxRevenue, A, params.wealthTaxRate, Len(A))
    /\ wealth' = TaxWealth(wealth, params.wealthTaxRate)
    /\ pc' = "weights"
    /\ UNCHANGED <<params, rng, t, effort, gotAnyReward, rewardCount, series, weights,
                   winner, result, calls, callsLeft, inputs, direct>>

\* weight computation (lines 240-246)
Weights ==
    /\ pc = "weights"
    /\ weights' = WeightsOf(A, effort, params.alpha, params.lambda)
    /\ pc' = "reward"
    /\ UNCHANGED <<params, rng, t, effort, A, gotAnyReward, rewardCount, wealth, series,
                   totalTaxRevenue, winner, result, calls, callsLeft, inputs, direct>>

\* winner selection, reward and income tax (lines 248-259)
Reward ==
    /\ pc = "reward"
    /\ LET draw == mulberry32(rng)
           w == softmaxPick(weights, draw.value)
       IN  /\ rng' = IF PickDraws(weights) THEN draw.t ELSE rng
           /\ winner' = w
           /\ totalTaxRevenue' = NumAdd(totalTaxRevenue, IncomeTax(params.incomeTaxRate))
           /\ A' = Credit(A, w, AfterTaxReward(params.incomeTaxRate))
           /\ wealth' = Credit(wealth, w, AfterTaxReward(params.incomeTaxRate))
           /\ gotAnyReward' = MarkRewarded(gotAnyReward, w)
           /\ rewardCount' = CountReward(rewardCount, w)
    /\ pc' = "metrics"
    /\ UNCHANGED <<params, t, effort, series, weights, result, calls, callsLeft, inputs, direct>>

\* diagnostics and the row of this iteration (lines 261-283)
Metrics ==
    /\ pc = "metrics"
    /\ series' = Append(series, SeriesRow(t, effort, gotAnyReward, rewardCount, wealth,
                                          totalTaxRevenue, params.bins))
    /\ t' = t + 1
    /\ pc' = "entry"
    /\ UNCHANGED <<params, rng, effort, A, gotAnyReward, rewardCount, wealth,
                   totalTaxRevenue, weights, winner, result, calls, callsLeft, inputs, direct>>

\* what simulate returns (lines 285-307)
Returned ==
    [series |-> series,
     bars |-> Bars(rewardCount),
     effortCurve |-> EffortCurve(effort, gotAnyReward, params.bins),
     totalTaxRevenue |-> totalTaxRevenue]

\* loop test failed; final distributions and return (lines 207, 285-307)
Return ==
    /\ pc = "entry"
    /\ ~(t < params.T)
    /\ result' = Returned
    /\ calls' = Append(calls, [params |-> params, result |-> Returned])
    /\ pc' = "idle"
    /\ UNCHANGED <<params, rng, t, effort, A, gotAnyReward, rewardCount, wealth, series,
                   totalTaxRevenue, weights, winner, callsLeft, inputs, direct>>

\* a direct call gini(values) on a sequence of non-negative numbers (lines 118-127)
CallGini ==
    /\ probe # <<>>
    /\ answer = <<>>
    /\ answer' = <<gini(probe)>>
    /\ UNCHANGED <<pc, params, rng, t, effort, A, gotAnyReward, rewardCount, wealth, series,
                   totalTaxRevenue, weights, winner, result, calls, callsLeft, inputs, probe>>

\* the slider positions classifyRegime is called with: the thresholds of its rules
\* and values on either side of them
RegimeAlphaSet == {Zero, Q(9, 20), Q(1, 2), Q(9, 10), Q(19, 20), One, Q(6, 5), Q(5, 4), Q(2, 1)}
RegimeLambdaSet == {Zero, Q(2, 5), Q(9, 20), Q(1, 2), Q(3, 5), Q(7, 10), Q(4, 5), Q(17, 20), One}
RegimeChurnSet == {Zero, Q(1, 250), Q(1, 200), Q(7, 1000), Q(1, 100), Q(3, 200), Q(1, 50)}

\* no simulate call is made; classifyRegime is called on one triple
InitRegime ==
    \E alpha \in RegimeAlphaSet, lambda \in RegimeLambdaSet, churn \in RegimeChurnSet :
        InitWith(0, "classifyRegime", <<alpha, lambda, churn>>)

\* a direct call classifyRegime(alpha, lambda, churn) (lines 311-330)
CallClassifyRegime ==
    /\ inputs = "classifyRegime"
    /\ answer = <<>>
    /\ answer' = <<classifyRegime(probe[1], probe[2], probe[3])>>
    /\ UNCHANGED <<pc, params, rng, t, effort, A, gotAnyReward, rewardCount, wealth, series,
                   totalTaxRevenue, weights, winner, result, calls, callsLeft, inputs, probe>>

Next == Call \/ Entry \/ Churn \/ WealthTax \/ Weights \/ Reward \/ Metrics \/ Return

Spec == Init /\ [][Next]_vars

SpecCalls == InitCalls /\ [][Next]_vars

\* one call of simulate with a large exponent and a wealth tax of 1
SpecFloor == InitFloor /\ [][Next]_vars

\* simulate runs and direct calls of gini
NextConcentration == Next \/ CallGini

SpecConcentration == (Init \/ InitGini) /\ [][NextConcentration]_vars

\* the calls of generatePhaseTransition: a resolution, an alpha range with cells one
\* or two units wide whose midpoints are natural numbers, a lambda range, churn
PhaseInputs ==
    UNION {{<<alphaRange, lambdaRange, churn, resolution>> :
               alphaRange \in {<<Zero, Q(2 * resolution, 1)>>,
                               <<Q(1, 2), Q(2 * resolution + 1, 2)>>},
               lambdaRange \in {<<Zero, One>>, <<Zero, Q(2, 1)>>, <<Q(1, 2), One>>,
                                <<One, Q(3, 1)>>, <<Q(1, 2), Q(2, 1)>>},
               churn \in ChurnSet} : resolution \in 0..MaxResolution}

\* no simulate call is made by the caller; generatePhaseTransition is called once
InitPhase ==
    \E in \in PhaseInputs : InitWith(0, "generatePhaseTransition", in)

\* a direct call generatePhaseTransition(alphaRange, lambdaRange, churn, resolution)
\* (lines 333-366)
CallGeneratePhaseTransition ==
    /\ inputs = "generatePhaseTransition"
    /\ answer = <<>>
    /\ answer' = <<generatePhaseTransition(probe[1], probe[2], probe[3], probe[4])>>
    /\ UNCHANGED <<pc, params, rng, t, effort, A, gotAnyReward, rewardCount, wealth, series,
                   totalTaxRevenue, weights, winner, result, calls, callsLeft, inputs, probe>>

\* the calls of generateTaxRevenueCurve: horizons below, at and above the cap
CurveInputs ==
    {<<alpha, lambda, churn, T, taxType, maxRate, steps>> :
        alpha \in AlphaSet, lambda \in LambdaSet, churn \in ChurnSet,
        T \in TSet \cup {CurveCap}, taxType \in {"income", "wealth"},
        maxRate \in {Q(1, 2), One}, steps \in {1, 2}}

\* no simulate call is made by the caller; generateTaxRevenueCurve is called once
InitCurve == \E in \in CurveInputs : InitWith(0, "generateTaxRevenueCurve", in)

\* a direct call generateTaxRevenueCurve(alpha, lambda, churn, T, taxType, maxRate,
\* steps) (lines 369-411); calls records the simulate calls it made
CallGenerateTaxRevenueCurve ==
    /\ inputs = "generateTaxRevenueCurve"
    /\ answer = <<>>
    /\ answer' = <<generateTaxRevenueCurve(probe[1], probe[2], probe[3], probe[4],
                                           probe[5], probe[6], probe[7])>>
    /\ calls' = TaxCurveLoop(probe[1], probe[2], probe[3], probe[4],
                             probe[5], probe[6], probe[7]).calls
    /\ UNCHANGED <<pc, params, rng, t, effort, A, gotAnyReward, rewardCount, wealth, series,
                   totalTaxRevenue, weights, winner, result, callsLeft, inputs, probe>>

\* the generator mulberry32(seed) on its own: probe is <<seed>> before it is made and
\* <<seed, n>> after, n the number of calls made; answer holds the recorded values
InitGenerator == \E seed \in SeedSet \cup {0} : InitWith(0, "mulberry32", <<seed>>)

\* mulberry32(seed) returns the closure (lines 104-105)
MakeGenerator ==
    /\ inputs = "mulberry32"
    /\ Len(probe) = 1
    /\ rng' = TInit(probe[1])
    /\ probe' = <<probe[1], 0>>
    /\ UNCHANGED <<pc, params, t, effort, A, gotAnyReward, rewardCount, wealth, series,
                   totalTaxRevenue, weights, winner, result, calls, callsLeft, inputs, answer>>

\* one call of the closure, its value recorded (lines 106-111)
CallGenerator ==
    /\ inputs = "mulberry32"
    /\ Len(probe) = 2
    /\ Len(answer) < MaxDraws
    /\ rng' = mulberry32(rng).t
    /\ answer' = Append(answer, mulberry32(rng).value)
    /\ probe' = <<probe[1], probe[2] + 1>>
    /\ UNCHANGED <<pc, params, t, effort, A, gotAnyReward, rewardCount, wealth, series,
                   totalTaxRevenue, weights, winner, result, calls, callsLeft, inputs>>

\* the first LongRun calls of the closure, their values dropped; none of their sums
\* is rounded, t staying below 2^53
CallGeneratorOften ==
    /\ inputs = "mulberry32"
    /\ Len(probe) = 2
    /\ probe[2] = 0
    /\ rng' = TAfter(probe[1], LongRun)
    /\ probe' = <<probe[1], LongRun>>
    /\ UNCHANGED <<pc, params, t, effort, A, gotAnyReward, rewardCount, wealth, series,
                   totalTaxRevenue, weights, winner, result, calls, callsLeft, inputs, answer>>

NextGenerator == MakeGenerator \/ CallGenerator \/ CallGeneratorOften

SpecGenerator == InitGenerator /\ [][NextGenerator]_vars

\* the values rng() can return, and the weight lists softmaxPick is called with directly
DrawSet == {Q(k, IPow(2, DrawBits)) : k \in 0..IPow(2, DrawBits) - 1}

PickInputs == (SeqsUpTo(GiniValues, MaxLen) \ {<<>>}) \X DrawSet

InitPick == \E arg \in PickInputs : InitWith(0, "softmaxPick", arg)

\* a direct call softmaxPick(weights, rng) whose rng returns probe[2] (lines 170-181)
CallSoftmaxPick ==
    /\ inputs = "softmaxPick"
    /\ answer = <<>>
    /\ answer' = <<softmaxPick(probe[1], probe[2])>>
    /\ UNCHANGED <<pc, params, rng, t, effort, A, gotAnyReward, rewardCount, wealth, series,
                   totalTaxRevenue, weights, winner, result, calls, callsLeft, inputs, probe>>

\* direct calls of softmaxPick
SpecPick == InitPick /\ [][CallSoftmaxPick]_vars

\* the arrays and bin numbers the histogram block is run on directly: efforts in
\* [0, 1] with both ends, flags 0 and 1
HistogramInputs ==
    UNION {[1..n -> {Zero, Q(1, 2), Q(9, 10), One}] \X [1..n -> {0, 1}] \X {1, 2, 3, 10} :
           n \in 0..MaxLen}

InitHistogram == \E arg \in HistogramInputs : InitWith(0, "effortCurve", arg)

\* the histogram block at the end of simulate, run on the arrays effort = probe[1] and
\* gotAnyReward = probe[2] with bins = probe[3] (lines 295-305)
CallEffortCurve ==
    /\ inputs = "effortCurve"
    /\ answer = <<>>
    /\ answer' = <<EffortCurve(probe[1], probe[2], probe[3])>>
    /\ UNCHANGED <<pc, params, rng, t, effort, A, gotAnyReward, rewardCount, wealth, series,
                   totalTaxRevenue, weights, winner, result, calls, callsLeft, inputs, probe>>

\* the histogram block on given arrays
SpecHistogram == InitHistogram /\ [][CallEffortCurve]_vars

\* the positions of the alpha and lambda sliders: 0 to 2 in steps of 0.05
SliderSet == {Q(k, 20) : k \in 0..40}

InitHighlight == \E alpha \in SliderSet, lambda \in SliderSet :
    InitWith(0, "highlight", <<alpha, lambda>>)

\* the phase map of 100 points is rendered with alpha = probe[1], lambda = probe[2]:
\* the index of the current cell, and the positions rendered as current (lines 1042-1050)
Highlight ==
    /\ inputs = "highlight"
    /\ answer = <<>>
    /\ \E alphaIdx \in CellIdx(probe[1]), lambdaIdx \in CellIdx(probe[2]) :
        answer' = <<[alphaIdx |-> alphaIdx,
                     lambdaIdx |-> lambdaIdx,
                     currentCellIdx |-> CurrentCellIdx(alphaIdx, lambdaIdx),
                     current |-> {idx \in 0..99 : idx = CurrentCellIdx(alphaIdx, lambdaIdx)}]>>
    /\ UNCHANGED <<pc, params, rng, t, effort, A, gotAnyReward, rewardCount, wealth, series,
                   totalTaxRevenue, weights, winner, result, calls, callsLeft, inputs, probe>>

\* renderings of the phase map
SpecHighlight == InitHighlight /\ [][Highlight]_vars

\* direct calls of classifyRegime
SpecRegime == InitRegime /\ [][CallClassifyRegime]_vars

\* direct calls of generatePhaseTransition
SpecPhase == InitPhase /\ [][CallGeneratePhaseTransition]_vars

\* direct calls of generateTaxRevenueCurve
SpecCurve == InitCurve /\ [][CallGenerateTaxRevenueCurve]_vars

(***************************************************************************)
(* Properties                                                              *)
(***************************************************************************)
NonNeg(x) == NumLe(Zero, x)
Positive(x) == NumLt(Zero, x)
InUnit(x) == NumLe(Zero, x) /\ NumLe(x, One)

\* a call is running and an iteration's reward has been granted but not yet recorded
Rewarded == pc = "metrics"

\* C1 (reward conservation): after every completed step the reward counts of all
\* agents sum to the number of completed steps, and the reward sub-step of each step
\* raises exactly one agent's count, by exactly 1.
C1_RewardConservation ==
    /\ [](/\ pc \in {"entry", "idle"} => SumInt(rewardCount) = t
          /\ pc = "metrics" => SumInt(rewardCount) = t + 1)
    /\ [][pc = "reward" =>
            /\ Len(rewardCount') = Len(rewardCount)
            /\ Cardinality({i \in 1..Len(rewardCount) : rewardCount'[i] # rewardCount[i]}) = 1
            /\ \A i \in 1..Len(rewardCount) :
                 rewardCount'[i] # rewardCount[i] => rewardCount'[i] = rewardCount[i] + 1]_vars

\* a run of at least two steps is over and one agent was rewarded more than once
C1_Witness ==
    /\ pc = "idle" /\ t >= 2 /\ SumInt(rewardCount) = t
    /\ \E i \in 1..Len(rewardCount) : rewardCount[i] >= 2

\* C2 (non-negativity): with both tax rates in [0,1] (0 and 1 included), churn in
\* [0,1) and A0 > 0, every attachment, every wealth and the cumulative tax revenue
\* are >= 0 after every sub-step of every step.
C2_NonNegative ==
    /\ \A i \in 1..Len(A) : NonNeg(A[i])
    /\ \A i \in 1..Len(wealth) : NonNeg(wealth[i])
    /\ NonNeg(totalTaxRevenue)

\* the wealth tax at rate 1 has just emptied the attachment of an agent rewarded before
C2_Witness ==
    /\ pc = "weights" /\ t >= 1
    /\ params.wealthTaxRate = One /\ params.incomeTaxRate = Zero
    /\ \A i \in 1..Len(A) : A[i] = Zero /\ wealth[i] = Zero
    /\ Positive(totalTaxRevenue)

\* C3 (determinism, independence of calls): two simulate calls with the same
\* parameter record return the same series, bars, effortCurve and totalTaxRevenue,
\* whatever calls ran before or between them.
C3_Deterministic ==
    \A i, j \in 1..Len(calls) :
        calls[i].params = calls[j].params => calls[i].result = calls[j].result

\* the first and the third call have the same parameters, the call between them has
\* another seed, and the calls did return rows
C3_Witness ==
    /\ Len(calls) >= 3
    /\ calls[1].params = calls[3].params
    /\ calls[2].params.seed # calls[1].params.seed
    /\ Len(calls[3].result.series) = 2
    /\ calls[2].result # calls[1].result

\* the number of agents the arrays hold in the current state
Entered == IF pc \in {"entry", "idle"} THEN t ELSE t + 1

\* C4 (population and series shape): the five arrays have one element per agent
\* entered so far (t after t completed steps), the series has one row per completed
\* step with t = 1, 2, ..., and a call with T = 0 returns an empty series, empty bars
\* and revenue 0.
C4_Shape ==
    /\ Len(effort) = Entered /\ Len(A) = Entered /\ Len(gotAnyReward) = Entered
    /\ Len(rewardCount) = Entered /\ Len(wealth) = Entered
    /\ Len(series) = t
    /\ \A k \in 1..Len(series) : series[k].t = k
    /\ \A c \in 1..Len(calls) :
         /\ Len(calls[c].result.series) = calls[c].params.T
         /\ calls[c].params.T = 0 =>
              /\ calls[c].result.series = <<>>
              /\ calls[c].result.bars = <<>>
              /\ calls[c].result.totalTaxRevenue = Zero

\* a run of several steps has returned
C4_Witness ==
    /\ pc = "idle" /\ Len(calls) = 1 /\ params.T >= 2
    /\ Len(effort) = params.T /\ Len(result.series) = params.T
    /\ result.series[params.T].t = params.T

\* C5 (effort immutability): within a run no step changes the effort an agent
\* entered with; the only write to the array is the append of the entrant's value.
C5_EffortImmutable ==
    [][pc # "idle" =>
         /\ \A i \in 1..Len(effort) : i <= Len(effort') /\ effort'[i] = effort[i]
         /\ \/ effort' = effort
            \/ pc = "entry" /\ Len(effort') = Len(effort) + 1]_vars

\* two agents with different efforts have been through churn, tax and reward
C5_Witness ==
    /\ pc = "idle" /\ Len(effort) >= 2
    /\ effort[1] # effort[2]
    /\ Positive(params.churn) /\ Positive(params.wealthTaxRate)

\* C6 (monotone reward history): within a run, an agent's gotAnyReward flag never
\* goes back from 1 and its rewardCount never decreases.
C6_MonotoneRewards ==
    [][pc # "idle" =>
         \A i \in 1..Len(rewardCount) :
            /\ i <= Len(rewardCount') /\ i <= Len(gotAnyReward')
            /\ gotAnyReward[i] = 1 => gotAnyReward'[i] = 1
            /\ rewardCount'[i] >= rewardCount[i]]_vars

\* an agent rewarded in an earlier step is present when another agent wins
C6_Witness ==
    /\ Rewarded
    /\ \E i \in 1..Len(gotAnyReward) : i # winner + 1 /\ gotAnyReward[i] = 1

\* the draw in [0,1) that falls in the middle of agent i's share of the total weight
MidDraw(w, i) ==
    NumDiv(NumAdd(SumNum(SubSeq(w, 1, i - 1)), NumMul(Q(1, 2), w[i])), SumNum(w))

\* C7 (strictly positive weights): at every step every entered agent's weight is
\* > 0, also when its attachment is 0, so the total is > 0 and for every agent there
\* is a draw in [0,1) for which softmaxPick chooses it.
C7_PositiveWeights ==
    pc = "reward" =>
        /\ Len(weights) = Len(A)
        /\ \A i \in 1..Len(weights) : Positive(weights[i])
        /\ Positive(SumNum(weights))
        /\ \A i \in 1..Len(weights) :
             /\ NonNeg(MidDraw(weights, i)) /\ NumLt(MidDraw(weights, i), One)
             /\ softmaxPick(weights, MidDraw(weights, i)) = i - 1

\* weights were computed for two agents whose attachment the wealth tax took whole
C7_Witness ==
    /\ pc = "reward" /\ Len(weights) >= 2
    /\ params.alpha >= 1 /\ params.wealthTaxRate = One
    /\ \A i \in 1..Len(A) : A[i] = Zero

C9_PostTaxFallback ==
    /\ (pc \in {"entry", "idle"} /\ series # <<>>) =>
         LET row == series[Len(series)]
         IN  IF Positive(SumNum(wealth)) THEN row.postTaxGini = gini(wealth)
             ELSE row.postTaxGini = row.Gini
    /\ params.incomeTaxRate = One =>
         \A k \in 1..Len(series) : series[k].postTaxGini = series[k].Gini

\* all income is taxed away, wealth is 0 and the rewards are unequally spread
C9_Witness ==
    /\ pc = "entry" /\ series # <<>>
    /\ params.incomeTaxRate = One
    /\ SumNum(wealth) = Zero
    /\ Positive(series[Len(series)].Gini)
    /\ series[Len(series)].postTaxGini = series[Len(series)].Gini

\* C10 (first step): after step 1 there is one agent with rewardCount = [1] and
\* gotAnyReward = [1], and the first row has Gini = 0, MI_bits = 0, Top1 = 1 and
\* Top10 = 1.
C10_FirstStep ==
    /\ ((pc = "metrics" /\ t = 0) \/ (pc = "entry" /\ t = 1)) =>
         /\ Len(effort) = 1 /\ Len(A) = 1 /\ Len(wealth) = 1
         /\ rewardCount = <<1>>
         /\ gotAnyReward = <<1>>
    /\ series # <<>> =>
         /\ series[1].t = 1
         /\ series[1].Gini = Zero
         /\ series[1].MI_bits = Zero
         /\ series[1].Top1 = One
         /\ series[1].Top10 = One

\* step 1 is complete in a run with effort modulation and both taxes
C10_Witness ==
    /\ pc = "entry" /\ t = 1 /\ Len(series) = 1
    /\ params.lambda = One /\ params.alpha = 2
    /\ params.wealthTaxRate = Q(1, 2) /\ params.incomeTaxRate = Q(1, 2)

\* the claimed rules of the classifier, in the claimed order, as truth values
RegimeRules(alpha, lambda, churn) ==
    << NumLt(alpha, Q(1, 2)) /\ NumLt(Q(4, 5), lambda) /\ NumLt(Q(1, 200), churn),
       NumLe(Q(1, 2), alpha) /\ NumLt(alpha, One) /\ NumLt(Q(3, 5), lambda)
           /\ NumLt(churn, Q(1, 100)),
       NumLe(Q(9, 10), alpha) /\ NumLe(alpha, Q(6, 5)) /\ NumLe(Q(2, 5), lambda)
           /\ NumLe(lambda, Q(4, 5)) /\ NumLe(Q(1, 200), churn) /\ NumLe(churn, Q(3, 200)),
       NumLt(Q(6, 5), alpha) /\ NumLt(lambda, Q(1, 2)) /\ NumLt(churn, Q(1, 200)) >>

RegimeNames == <<"Ordered", "Periodic", "Complex", "Chaotic">>

Classified == inputs = "classifyRegime" /\ answer # <<>>

\* C11 (regime classifier priority): every call of classifyRegime returns one of the
\* five regime names, namely the name of the first of the four rules, in the order
\* Ordered, Periodic, Complex, Chaotic, that holds of (alpha, lambda, churn), and
\* Transitional when none holds.
C11_ClassifierPriority ==
    Classified =>
        LET rules == RegimeRules(probe[1], probe[2], probe[3])
            hit == {i \in 1..4 : rules[i]}
            first == CHOOSE i \in hit : \A j \in hit : i <= j
        IN  /\ answer[1].name \in {"Ordered", "Periodic", "Complex", "Chaotic", "Transitional"}
            /\ answer[1].name = IF hit = {} THEN "Transitional" ELSE RegimeNames[first]

\* a call whose arguments satisfy both the Periodic and the Complex rule
C11_Witness ==
    /\ Classified
    /\ RegimeRules(probe[1], probe[2], probe[3])[2]
    /\ RegimeRules(probe[1], probe[2], probe[3])[3]
    /\ answer[1].name = "Periodic"

PhaseMapped == inputs = "generatePhaseTransition" /\ answer # <<>>

\* C12 (phase-map ordering): a call of generatePhaseTransition with ranges of positive
\* width returns exactly R * R points; the point at index row * R + col has
\* lambda = lambdaRange[1] - (row + 0.5) * (lambda width) / R and
\* alpha = alphaRange[0] + (col + 0.5) * (alpha width) / R; lambda strictly decreases
\* from each row to the next and alpha strictly increases from each column to the next.
C12_PhaseOrdering ==
    PhaseMapped =>
        LET alphaRange == probe[1]
            lambdaRange == probe[2]
            R == probe[4]
            points == answer[1]
            at(row, col) == points[row * R + col + 1]
            half(k) == Q(2 * k + 1, 2)
            width(range) == NumSub(range[2], range[1])
        IN  /\ Len(points) = R * R
            /\ \A row \in 0..R - 1, col \in 0..R - 1 :
                /\ at(row, col).lambda =
                       NumSub(lambdaRange[2],
                              NumDiv(NumMul(half(row), width(lambdaRange)), Q(R, 1)))
                /\ at(row, col).alpha =
                       NumAdd(alphaRange[1],
                              NumDiv(NumMul(half(col), width(alphaRange)), Q(R, 1)))
                /\ row > 0 => NumLt(at(row, col).lambda, at(row - 1, col).lambda)
                /\ col > 0 => NumLt(at(row, col - 1).alpha, at(row, col).alpha)

\* a map of at least two rows and two columns has been returned
C12_Witness ==
    /\ PhaseMapped
    /\ probe[4] >= 2
    /\ Len(answer[1]) = probe[4] * probe[4]
    /\ NumLt(answer[1][probe[4] + 1].lambda, answer[1][1].lambda)
    /\ NumLt(answer[1][1].alpha, answer[1][2].alpha)

\* generateTaxRevenueCurve was called with a horizon T >= 1 and is over
CurveMade == inputs = "generateTaxRevenueCurve" /\ answer # <<>> /\ probe[4] >= 1

\* C13 (tax-curve shape): a call of generateTaxRevenueCurve with steps >= 1 and a
\* horizon T >= 1 returns exactly steps + 1 points; point i (i = 0..steps) has rate
\* 100 * i * maxRate / steps, so the first is 0 and the last 100 * maxRate; it was made
\* from the i-th simulate call of the generator, whose selected tax rate is
\* i * maxRate / steps and whose other tax rate is 0; alpha, lambda, churn, bins, seed
\* and horizon are the same in all the calls.
C13_CurveShape ==
    (CurveMade /\ probe[7] >= 1) =>
        LET alpha == probe[1]
            lambda == probe[2]
            churn == probe[3]
            taxType == probe[5]
            maxRate == probe[6]
            steps == probe[7]
            points == answer[1].points
            share(i) == NumDiv(NumMul(Q(i, 1), maxRate), Q(steps, 1))
        IN  /\ ~answer[1].thrown
            /\ Len(points) = steps + 1
            /\ Len(calls) = steps + 1
            /\ points[1].rate = Zero
            /\ points[steps + 1].rate = NumMul(Q(100, 1), maxRate)
            /\ \A i \in 0..steps :
                LET p == calls[i + 1].params
                    run == calls[i + 1].result
                IN  /\ points[i + 1].rate = NumMul(Q(100, 1), share(i))
                    /\ points[i + 1].revenue = run.totalTaxRevenue
                    /\ points[i + 1].postTaxGini = Last(run).Gini
                    /\ run = simulate(p)
                    /\ p.incomeTaxRate = IF taxType = "income" THEN share(i) ELSE Zero
                    /\ p.wealthTaxRate = IF taxType = "wealth" THEN share(i) ELSE Zero
                    /\ p.alpha = alpha /\ p.lambda = lambda /\ p.churn = churn
                    /\ p.bins = calls[1].params.bins
                    /\ p.seed = calls[1].params.seed
                    /\ p.T = calls[1].params.T

\* a wealth-tax curve of three points has been returned, its last point at a positive
\* rate with revenue collected
C13_Witness ==
    /\ CurveMade
    /\ probe[5] = "wealth"
    /\ Len(answer[1].points) = 3
    /\ Positive(answer[1].points[3].rate)
    /\ Positive(answer[1].points[3].revenue)

\* the zero-tax run with the curve's alpha, lambda and churn, its seed 42 and horizon T
Untaxed(T) ==
    simulate([T |-> T, alpha |-> probe[1], lambda |-> probe[2], churn |-> probe[3],
              A0 |-> One, bins |-> 10, seed |-> 42,
              incomeTaxRate |-> Zero, wealthTaxRate |-> Zero])

\* C14 as claimed (tax curve at rate 0 matches the untaxed run): for every horizon
\* T >= 1 the first point of the curve has the terminal reward-count concentration of
\* the zero-tax run with the same alpha, lambda, churn and T, and revenue 0.
C14_RateZeroAnyHorizon ==
    CurveMade =>
        /\ answer[1].points[1].postTaxGini = Last(Untaxed(probe[4])).Gini
        /\ answer[1].points[1].revenue = Zero

\* C14 as amended: for every horizon T >= 1 the first point of the curve has the
\* terminal reward-count concentration of the zero-tax run with the same alpha, lambda
\* and churn, seed 42 and the capped horizon min(T, cap), and revenue 0.
C14_RateZeroCapped ==
    CurveMade =>
        /\ answer[1].points[1].rate = Zero
        /\ answer[1].points[1].postTaxGini = Last(Untaxed(MinI(probe[4], CurveCap))).Gini
        /\ answer[1].points[1].revenue = Zero

\* a curve asked for a horizon above the cap, whose first point differs from the
\* untaxed run of that horizon
C14_Witness ==
    /\ CurveMade
    /\ probe[4] > CurveCap
    /\ answer[1].points[1].postTaxGini # Last(Untaxed(probe[4])).Gini
    /\ answer[1].points[1].postTaxGini = Last(Untaxed(CurveCap)).Gini

C16_GeneratorContract ==
    (inputs = "mulberry32" /\ Len(probe) = 2) =>
        /\ TWord(rng) = TWord(TAfter(probe[1], probe[2]))
        /\ \A i \in 1..Len(answer) : NumLe(Zero, answer[i]) /\ NumLt(answer[i], One)

\* the positions of a call in the order the code passes through them
StepOrder ==
    {<<"idle", "entry">>, <<"entry", "churn">>, <<"churn", "wealthTax">>,
     <<"wealthTax", "weights">>, <<"weights", "reward">>, <<"reward", "metrics">>,
     <<"metrics", "entry">>, <<"entry", "idle">>}

\* the attachment of the agent entered in the running iteration
Entrant == A[t + 1]

\* what the sub-steps taken so far in the running iteration have made of the arrays
SubStepsDone ==
    /\ pc \in {"churn", "wealthTax", "weights", "reward", "metrics"} => Len(A) = t + 1
    /\ pc = "churn" => Entrant = params.A0
    /\ pc = "wealthTax" => Entrant = NumMul(params.A0, NumSub(One, params.churn))
    /\ pc \in {"weights", "reward"} =>
        Entrant = NumMul(NumMul(params.A0, NumSub(One, params.churn)),
                         NumSub(One, params.wealthTaxRate))
    /\ pc = "reward" => weights = WeightsOf(A, effort, params.alpha, params.lambda)
    /\ pc \in {"churn", "wealthTax", "weights", "reward"} =>
        SumInt(rewardCount) = t /\ Len(series) = t
    /\ pc = "metrics" => SumInt(rewardCount) = t + 1 /\ Len(series) = t
    /\ (pc = "entry" /\ t >= 1) =>
        /\ Len(series) = t
        /\ SumInt(rewardCount) = t
        /\ series[t] = SeriesRow(t - 1, effort, gotAnyReward, rewardCount, wealth,
                                 totalTaxRevenue, params.bins)
        /\ series[t].taxRevenue = totalTaxRevenue

\* C17 (step order): a call passes through entry, churn decay, wealth tax, weight
\* computation, winner selection with reward, and metrics in this order, iteration after
\* iteration; the agent entered in an iteration has attachment A0 * (1 - churn) *
\* (1 - wealthTaxRate) when the weights are computed; and the row of an iteration is
\* computed from the arrays as the reward of that iteration left them.
C17_StepOrder == [][pc' # pc => <<pc, pc'>> \in StepOrder]_vars /\ []SubStepsDone

\* in a second iteration with churn and a wealth tax, the weights have been computed
\* with the entrant decayed and taxed
C17_Witness ==
    /\ pc = "reward"
    /\ t = 1
    /\ NumLt(Zero, params.churn)
    /\ NumLt(Zero, params.wealthTaxRate)
    /\ Entrant = NumMul(params.A0, Q(1, 4))
    /\ NumLt(Entrant, params.A0)

\* what a wealth-tax sub-step does to the attachments, the wealth ledger and the revenue
WealthTaxEffect ==
    LET rate == params.wealthTaxRate
        keep == NumSub(One, rate)
    IN  /\ Len(A') = Len(A)
        /\ Len(wealth') = Len(wealth)
        /\ NumLt(Zero, rate) =>
            /\ \A i \in 1..Len(A) : A'[i] = NumMul(A[i], keep)
            /\ \A i \in 1..Len(wealth) : wealth'[i] = NumMul(wealth[i], keep)
            /\ totalTaxRevenue' = NumAdd(totalTaxRevenue, NumMul(rate, SumNum(A)))
        /\ rate = Zero => A' = A /\ wealth' = wealth /\ totalTaxRevenue' = totalTaxRevenue

\* C18 (wealth-tax accounting): with wealthTaxRate > 0 the wealth-tax sub-step
\* multiplies every attachment and every wealth entry by 1 - wealthTaxRate and adds to
\* totalTaxRevenue exactly wealthTaxRate times the sum of the attachments before the tax,
\* nothing for the amount taken from the wealth ledger; with wealthTaxRate = 0 it
\* changes none of the three.
C18_WealthTaxAccounting == [][(pc = "wealthTax" /\ pc' = "weights") => WealthTaxEffect]_vars

\* a wealth tax has just been levied on agents who hold wealth: the ledger shrank, and
\* the revenue holds attachment tax
C18_Witness ==
    /\ pc = "weights"
    /\ t >= 1
    /\ params.wealthTaxRate = Q(1, 2)
    /\ NumLt(Zero, SumNum(wealth))
    /\ NumLt(Zero, totalTaxRevenue)

\* what a reward sub-step does to the winner, to the revenue and to the other agents
RewardEffect ==
    LET w == winner' + 1
        rate == params.incomeTaxRate
        net == NumSub(One, rate)
    IN  /\ w \in 1..Len(A)
        /\ Len(A') = Len(A) /\ Len(wealth') = Len(wealth)
        /\ Len(gotAnyReward') = Len(gotAnyReward) /\ Len(rewardCount') = Len(rewardCount)
        /\ A'[w] = NumAdd(A[w], net)
        /\ wealth'[w] = NumAdd(wealth[w], net)
        /\ totalTaxRevenue' = NumAdd(totalTaxRevenue, rate)
        /\ NumAdd(NumSub(A'[w], A[w]), NumSub(totalTaxRevenue', totalTaxRevenue)) = One
        /\ gotAnyReward'[w] = 1
        /\ rewardCount'[w] = rewardCount[w] + 1
        /\ \A i \in (1..Len(A)) \ {w} :
            /\ A'[i] = A[i]
            /\ wealth'[i] = wealth[i]
            /\ gotAnyReward'[i] = gotAnyReward[i]
            /\ rewardCount'[i] = rewardCount[i]

\* C19 (reward sub-step): the reward sub-step adds 1 - incomeTaxRate to the winner's
\* attachment and to the winner's wealth and incomeTaxRate to totalTaxRevenue, the two
\* amounts summing to 1; it sets the winner's gotAnyReward to 1 and adds 1 to the
\* winner's rewardCount; and it leaves attachment, wealth, gotAnyReward and rewardCount
\* of every other agent as they were.
C19_RewardEffectAndFrame == [][(pc = "reward" /\ pc' = "metrics") => RewardEffect]_vars

\* an income-taxed reward has just gone to an agent rewarded before, among agents of
\* whom another was rewarded before and a third never
C19_Witness ==
    /\ pc = "metrics"
    /\ params.incomeTaxRate = Q(1, 2)
    /\ Len(A) = 3
    /\ rewardCount[winner + 1] = 2
    /\ \E i \in (1..Len(A)) \ {winner + 1} : rewardCount[i] = 1 /\ NumLt(Zero, wealth[i])
    /\ \E i \in (1..Len(A)) \ {winner + 1} : gotAnyReward[i] = 0

\* w[0] + ... + w[i], i 0-based
Cumulative(w, i) == SumNum(SubSeq(w, 1, i + 1))

Picked == inputs = "softmaxPick" /\ answer # <<>>

\* C20 (winner selection): for a non-empty list of non-negative weights and a draw u in
\* [0, 1), softmaxPick returns an index of the list; with a positive total it is the
\* smallest index whose cumulative weight is at least u * total; with a total of 0 it
\* is index 0.
C20_SmallestCumulativeIndex ==
    Picked =>
        LET w == probe[1]
            target == NumMul(probe[2], SumNum(w))
            i == answer[1]
        IN  /\ i \in 0..Len(w) - 1
            /\ NumLe(SumNum(w), Zero) => i = 0
            /\ NumLt(Zero, SumNum(w)) =>
                /\ NumLe(target, Cumulative(w, i))
                /\ \A j \in 0..i - 1 : NumLt(Cumulative(w, j), target)

\* softmaxPick has returned a later index whose cumulative weight equals u * total
C20_Witness ==
    /\ Picked
    /\ Len(probe[1]) = 3
    /\ answer[1] = 1
    /\ NumLt(Zero, probe[1][1])
    /\ Cumulative(probe[1], 1) = NumMul(probe[2], SumNum(probe[1]))

\* softmaxPick has returned index 0 for weights that are all 0
C20_WitnessZeroTotal ==
    /\ Picked
    /\ Len(probe[1]) = 2
    /\ SumNum(probe[1]) = Zero
    /\ answer[1] = 0

\* effort e lies in the b-th (0-based) of bins equal-width bins over [0, 1), the last
\* bin taking 1 as well
InBin(e, bins, b) ==
    \/ NumLe(Q(b, bins), e) /\ NumLt(e, Q(b + 1, bins))
    \/ e = One /\ b = bins - 1

\* the agents of effort array eff in bin b
Binned(eff, bins, b) == {i \in 1..Len(eff) : InBin(eff[i], bins, b)}

Histogrammed == inputs = "effortCurve" /\ answer # <<>>

\* C21 (effort histogram): for bins >= 1 and efforts in [0, 1], every effort has exactly
\* one bin, clamp(floor(effort * bins), 0, bins - 1), which is the equal-width bin
\* containing it, effort 1 lying in the last; effortCurve has bins entries labelled
\* "1" to "bins"; the bins' agent counts sum to the number of agents; pRewarded of a bin
\* is its rewarded agents over its agents, in [0, 1], and 0 for an empty bin.
C21_EffortHistogram ==
    Histogrammed =>
        LET eff == probe[1]
            got == probe[2]
            bins == probe[3]
            curve == answer[1]
        IN  /\ \A i \in 1..Len(eff) :
                /\ BinOf(eff[i], bins) = clamp(Floor(NumMul(eff[i], Q(bins, 1))), 0, bins - 1)
                /\ \A b \in 0..bins - 1 : InBin(eff[i], bins, b) <=> b = BinOf(eff[i], bins)
                /\ eff[i] = One => BinOf(eff[i], bins) = bins - 1
            /\ Len(curve) = bins
            /\ \A b \in 1..bins : curve[b].bin = ToString(b)
            /\ SumInt([b \in 1..bins |-> Cardinality(Binned(eff, bins, b - 1))]) = Len(eff)
            /\ \A b \in 1..bins :
                LET members == Binned(eff, bins, b - 1)
                    rewarded == {i \in members : got[i] = 1}
                IN  /\ members = {} => curve[b].pRewarded = Zero
                    /\ members # {} =>
                        curve[b].pRewarded = Q(Cardinality(rewarded), Cardinality(members))
                    /\ InUnit(curve[b].pRewarded)

\* a histogram of 10 bins whose last bin holds an agent of effort 1 and another agent,
\* one of the two rewarded, and whose fifth bin is empty
C21_Witness ==
    /\ Histogrammed
    /\ probe[3] = 10
    /\ \E i \in 1..Len(probe[1]) : probe[1][i] = One
    /\ answer[1][10].pRewarded = Q(1, 2)
    /\ Binned(probe[1], 10, 4) = {}
    /\ answer[1][5].pRewarded = Zero

\* the last row of the quick run of a cell: simulate with the horizon of the quick run,
\* the cell's alpha and lambda, the map's churn, bins 10, seed 42, and the defaults
\* A0 = 1 and both tax rates 0
QuickLast(alpha, lambda, churn) ==
    Last(simulate([T |-> QuickT, alpha |-> Exponent(alpha), lambda |-> lambda,
                   churn |-> churn, A0 |-> Defaults.A0, bins |-> 10, seed |-> 42,
                   incomeTaxRate |-> Defaults.incomeTaxRate,
                   wealthTaxRate |-> Defaults.wealthTaxRate]))

\* C22 (phase-map cell content): every point returned by generatePhaseTransition carries
\* the name and colour classifyRegime gives for the point's alpha and lambda and the
\* map's churn, and the MI_bits and Gini of the last row of the quick run made with the
\* point's alpha and lambda, the map's churn, bins 10, seed 42 and no tax.
C22_CellContent ==
    PhaseMapped =>
        \A k \in 1..Len(answer[1]) :
            LET point == answer[1][k]
            IN  /\ point.regime = classifyRegime(point.alpha, point.lambda, probe[3]).name
                /\ point.color = classifyRegime(point.alpha, point.lambda, probe[3]).color
                /\ point.mi = QuickLast(point.alpha, point.lambda, probe[3]).MI_bits
                /\ point.gini = QuickLast(point.alpha, point.lambda, probe[3]).Gini

\* a map has been returned with cells of two regimes, one of them with a concentration
\* above 0 that differs from its mutual information
C22_Witness ==
    /\ PhaseMapped
    /\ \E j, k \in 1..Len(answer[1]) : answer[1][j].regime # answer[1][k].regime
    /\ \E k \in 1..Len(answer[1]) :
        /\ NumLt(Zero, answer[1][k].gini)
        /\ answer[1][k].gini # answer[1][k].mi

Highlighted == inputs = "highlight" /\ answer # <<>>

\* x lies within 0.1 of mid, the ends included
NearMid(x, mid) == NumLe(NumSub(mid, Q(1, 10)), x) /\ NumLe(x, NumAdd(mid, Q(1, 10)))

\* C23 (highlighted cell): for every position of the alpha and lambda sliders the index
\* (9 - lambdaIdx) * 10 + alphaIdx is an index 0..99 of the 10 x 10 map over
\* [0, 2] x [0, 2]; exactly one position of the map is rendered as current; and the
\* point at that index, which is the point of row idx div 10 and column idx mod 10, has
\* its alpha within 0.1 of the slider's alpha and its lambda within 0.1 of the slider's
\* lambda, the ends of the intervals included.
C23_HighlightedCell ==
    Highlighted =>
        LET idx == answer[1].currentCellIdx
            whole == <<Zero, Q(2, 1)>>
        IN  /\ idx \in 0..99
            /\ Cardinality(answer[1].current) = 1
            /\ NearMid(probe[1], AlphaOfCol(whole, 10, idx % 10))
            /\ NearMid(probe[2], LambdaOfRow(whole, 10, idx \div 10))

\* alpha 0.6 on the edge between two cells was given the lower cell, lambda 2 the top
\* row: the current cell is the third of the first row
C23_Witness ==
    /\ Highlighted
    /\ probe = <<Q(3, 5), Q(2, 1)>>
    /\ answer[1].alphaIdx = 2
    /\ answer[1].lambdaIdx = 9
    /\ answer[1].currentCellIdx = 2

\* C24 (tax-curve concentration kind): for both tax kinds, the postTaxGini of the i-th
\* point of a curve is the Gini of the last row of the i-th run, the concentration of
\* the reward counts, also where that row's own postTaxGini, the concentration of
\* wealth, differs from it; and the point's revenue is that run's totalTaxRevenue.
C24_RewardCountConcentration ==
    CurveMade =>
        /\ Len(answer[1].points) = Len(calls)
        /\ \A i \in 1..Len(answer[1].points) :
            /\ answer[1].points[i].postTaxGini = Last(calls[i].result).Gini
            /\ Last(calls[i].result).postTaxGini # Last(calls[i].result).Gini =>
                answer[1].points[i].postTaxGini # Last(calls[i].result).postTaxGini
            /\ answer[1].points[i].revenue = calls[i].result.totalTaxRevenue

\* a wealth-tax curve has a point made from a run whose wealth is concentrated
\* differently from its reward counts, with revenue collected
C24_Witness ==
    /\ CurveMade
    /\ probe[5] = "wealth"
    /\ \E i \in 1..Len(answer[1].points) :
        /\ Last(calls[i].result).postTaxGini # Last(calls[i].result).Gini
        /\ answer[1].points[i].postTaxGini = Last(calls[i].result).Gini
        /\ Positive(answer[1].points[i].revenue)

\* the n-th value of the stream of a seed, n from 1
StreamValue(seed, n) == Unit(Mix(TAfter(seed, n)))

\* the number of values the running call has drawn
Drawn ==
    IF pc \in {"churn", "wealthTax", "weights", "reward"} THEN 2 * t + 1
    ELSE IF pc = "metrics" THEN 2 * t + 2
    ELSE 2 * t

\* C25 (generator consumption): a call of simulate draws twice in each step, first the
\* entrant's effort, then the winner's draw: after t steps its generator has advanced
\* exactly 2 * t times from the seed, 2 * T times at the return, and the effort of the
\* i-th agent is the (2 * i - 1)-th value of the seed's stream, whatever alpha, lambda,
\* churn, A0, bins and the tax rates are.
C25_TwoDrawsPerStep ==
    (probe = <<>> /\ (pc # "idle" \/ calls # <<>>)) =>
        /\ rng = TAfter(params.seed, Drawn)
        /\ pc = "idle" => t = params.T /\ rng = TAfter(params.seed, 2 * params.T)
        /\ \A i \in 1..Len(effort) : effort[i] = StreamValue(params.seed, 2 * i - 1)

\* the orders in which the four named rules can be tested
RuleOrders == {o \in [1..4 -> 1..4] : \A i, j \in 1..4 : o[i] = o[j] => i = j}

\* the name decided when the rules are tested in the order o
DecidedIn(o, rules) ==
    IF \A k \in 1..4 : ~rules[o[k]] THEN "Transitional"
    ELSE RegimeNames[o[CHOOSE k \in 1..4 : rules[o[k]] /\ \A l \in 1..(k - 1) : ~rules[o[l]]]]

\* the region the Periodic and the Complex rule share
OverlapRegion(alpha, lambda, churn) ==
    /\ NumLe(Q(9, 10), alpha) /\ NumLt(alpha, One)
    /\ NumLt(Q(3, 5), lambda) /\ NumLe(lambda, Q(4, 5))
    /\ NumLe(Q(1, 200), churn) /\ NumLt(churn, Q(1, 100))

\* C26 (regime overlap): of the four named rules of classifyRegime only Periodic and
\* Complex hold of one (alpha, lambda, churn), exactly when alpha is in [0.9, 1.0),
\* lambda in (0.6, 0.8] and churn in [0.005, 0.01), and the result is then Periodic;
\* everywhere else at most one rule holds and the result is the one every test order
\* of the rules decides.
C26_RegimeOverlap ==
    Classified =>
        LET rules == RegimeRules(probe[1], probe[2], probe[3])
            overlap == OverlapRegion(probe[1], probe[2], probe[3])
        IN  /\ \A i, j \in 1..4 : (i < j /\ rules[i] /\ rules[j]) => (i = 2 /\ j = 3)
            /\ (rules[2] /\ rules[3]) <=> overlap
            /\ overlap => answer[1].name = "Periodic"
            /\ ~overlap => \A o \in RuleOrders : answer[1].name = DecidedIn(o, rules)

\* a call in the shared region, answered Periodic although some test order of the rules
\* decides Complex
C26_Witness ==
    /\ Classified
    /\ OverlapRegion(probe[1], probe[2], probe[3])
    /\ answer[1].name = "Periodic"
    /\ \E o \in RuleOrders :
           DecidedIn(o, RegimeRules(probe[1], probe[2], probe[3])) = "Complex"

\* a call outside the shared region of which exactly one named rule holds
C26_WitnessDisjoint ==
    /\ Classified
    /\ ~OverlapRegion(probe[1], probe[2], probe[3])
    /\ answer[1].name = "Complex"

\* the agents flagged as rewarded
Flagged == {i \in 1..Len(gotAnyReward) : gotAnyReward[i] = 1}

\* C27 (reward flag consistency): in every state of simulate the two ledgers list the
\* same agents and gotAnyReward[i] = 1 exactly when rewardCount[i] >= 1; after every
\* completed step the number of flagged agents is at least 1 and at most the number of
\* completed steps.
C27_RewardFlagConsistency ==
    /\ Len(gotAnyReward) = Len(rewardCount)
    /\ \A i \in 1..Len(gotAnyReward) :
           /\ gotAnyReward[i] \in {0, 1}
           /\ gotAnyReward[i] = 1 <=> rewardCount[i] >= 1
    /\ (pc \in {"entry", "idle"} /\ t >= 1) =>
           (Cardinality(Flagged) >= 1 /\ Cardinality(Flagged) <= t)

\* three steps are done; one agent won twice, one once and one never
C27_Witness ==
    /\ pc = "idle" /\ t = 3
    /\ Cardinality(Flagged) = 2
    /\ \E i, j, k \in 1..3 : rewardCount[i] = 2 /\ rewardCount[j] = 1 /\ rewardCount[k] = 0

\* all attachment held plus all tax collected
MassOf(attachment, revenue) == NumAdd(SumNum(attachment), revenue)

Mass == MassOf(A, totalTaxRevenue)

\* what t steps have put in: A0 at each entry and the reward 1
MassEntered == NumMul(Q(t, 1), NumAdd(params.A0, One))

\* the mass after a sub-step, from the mass before it
MassStep ==
    MassOf(A', totalTaxRevenue') =
        CASE pc = "idle" /\ pc' = "entry" -> Zero
          [] pc = "entry" /\ pc' = "churn" -> NumAdd(Mass, params.A0)
          [] pc = "churn" -> NumSub(Mass, NumMul(SumNum(A), params.churn))
          [] pc = "reward" -> NumAdd(Mass, One)
          [] OTHER -> Mass

StepsDone == pc \in {"entry", "idle"} /\ (pc = "idle" => calls # <<>>)

\* C28 (mass conservation): after every step t the attachments and the tax revenue sum
\* to at most t * (A0 + 1), to exactly that when churn = 0 and to less when churn > 0;
\* the only sub-step that removes mass is the churn decay, which removes churn times
\* the attachment held, while entry adds A0, the reward adds 1 and the wealth tax
\* moves attachment to revenue unchanged in sum.
C28_MassConservation ==
    /\ [](StepsDone =>
            /\ NumLe(Mass, MassEntered)
            /\ params.churn = Zero => Mass = MassEntered
            /\ (NumLt(Zero, params.churn) /\ t >= 1) => NumLt(Mass, MassEntered))
    /\ [][MassStep]_vars

\* three steps with churn and both taxes: mass was lost to decay only
C28_Witness ==
    /\ pc = "idle" /\ t = 3
    /\ NumLt(Zero, params.churn)
    /\ NumLt(Zero, params.wealthTaxRate) /\ NumLt(Zero, params.incomeTaxRate)
    /\ NumLt(Zero, totalTaxRevenue)
    /\ NumLt(Mass, MassEntered)

\* three steps without churn and with both taxes: nothing was lost
C28_WitnessNoChurn ==
    /\ pc = "idle" /\ t = 3
    /\ params.churn = Zero
    /\ NumLt(Zero, params.wealthTaxRate) /\ NumLt(params.wealthTaxRate, One)
    /\ NumLt(Zero, params.incomeTaxRate)
    /\ Mass = MassEntered

C29_WitnessFullRate ==
    /\ pc = "idle" /\ t = 3
    /\ params.wealthTaxRate = Zero
    /\ params.incomeTaxRate = One
    /\ \A i \in 1..3 : wealth[i] = Zero
    /\ NumLt(Zero, series[3].Gini)
    /\ series[3].postTaxGini = series[3].Gini

\* generateTaxRevenueCurve was called, with any horizon, and is over
CurveCalled == inputs = "generateTaxRevenueCurve" /\ answer # <<>>

IsNumber(x) == DOMAIN x = {"num", "den", "eps"} /\ x.den >= 1

\* C30 (sweep generators on an empty inner run): every call of generateTaxRevenueCurve,
\* whatever its horizon T >= 0, returns without throwing a list of steps + 1 points
\* whose rate, revenue and postTaxGini are numbers.
C30_CurveOnAnyHorizon ==
    CurveCalled =>
        /\ ~answer[1].thrown
        /\ Len(answer[1].points) = probe[7] + 1
        /\ \A k \in 1..Len(answer[1].points) :
               /\ IsNumber(answer[1].points[k].rate)
               /\ IsNumber(answer[1].points[k].revenue)
               /\ IsNumber(answer[1].points[k].postTaxGini)

\* the same restricted to horizons T >= 1
C30_CurveOnPositiveHorizon == probe[4] >= 1 => C30_CurveOnAnyHorizon

\* a call with horizon 0: the first inner run returned an empty series, the read of its
\* last row threw, and no point was returned
C30_EmptyRunThrows ==
    /\ CurveCalled
    /\ probe[4] = 0
    /\ Len(calls) = 1 /\ calls[1].params.T = 0 /\ calls[1].result.series = <<>>
    /\ answer[1].thrown
    /\ answer[1].points = <<>>

\* every inner run of generatePhaseTransition has a terminal row: a map of R * R cells
\* is returned, each with numbers read from the last row of a run of QuickT >= 1 steps
C30_PhaseTerminalRow ==
    PhaseMapped =>
        /\ QuickT >= 1
        /\ Len(answer[1]) = probe[4] * probe[4]
        /\ \A k \in 1..Len(answer[1]) :
               /\ IsNumber(answer[1][k].mi) /\ IsNumber(answer[1][k].gini)
               /\ Len(simulate([T |-> QuickT, alpha |-> Exponent(answer[1][k].alpha),
                                 lambda |-> answer[1][k].lambda, churn |-> probe[3],
                                 A0 |-> One, bins |-> 10, seed |-> 42,
                                 incomeTaxRate |-> Zero,
                                 wealthTaxRate |-> Zero]).series) = QuickT

====
